---- MODULE Spec2Model ----
(***************************************************************************)
(* A model of the IPTV discovery pipeline of panni521/TVCrazy,             *)
(* src/all-z-j-new.py: name normalisation, seed expansion, liveness        *)
(* probing, directory listing, stream validation and the ranking of the    *)
(* measured sources; and of the speed test and the grouping of the         *)
(* processors src/unicast.py and src/mobileunicast/unicast.py.             *)
(*                                                                         *)
(* The pipeline stages are modelled as separate specifications over one    *)
(* set of variables; the variables of the stages a specification does not  *)
(* run stay at their idle values.                                          *)
(*                                                                         *)
(* Text is modelled as a sequence of one-character atoms.  A non-ASCII     *)
(* character is written "uXXXX", its code point: "u9AD8" "u6E05" is the    *)
(* two-character token gao-qing (high definition), "u53F0" is tai.         *)
(***************************************************************************)
EXTENDS Integers, Sequences, FiniteSets, TLC

VARIABLES
  \* ---- name normalisation (channel_name_normalize) ----
  n_pc,        \* "raw" | "once" | "twice"
  name,        \* the raw channel name
  n_once,      \* channel_name_normalize(name)
  n_twice,     \* channel_name_normalize(n_once)
  \* ---- test_speed_and_output (all-z-j-new.py) ----
  a_pc,              \* "testing" | "ranked"
  channels,          \* the (name, url) pairs the listers returned
  a_pending,         \* indices of channels whose test_channel has not finished
  channel_results,   \* results of the tests that succeeded, in completion order
  error_channels,    \* the channels whose test raised, in completion order
  optimized_results, \* the ranked list written to the output files
  \* ---- seed discovery (get_channels_alltv / _newnew / _hgxtv) ----
  d_pc,          \* "reading" | "expanding" | "probing" | "failed"
  d_mode,        \* "A" get_channels_alltv, "B" get_channels_newnew, "C" get_channels_hgxtv
  rows,          \* the host (A, C) or link (B) cell of each row of the seed file
  d_next,        \* the row the reader yields next
  urls,          \* the seed URLs collected from the rows
  d_todo,        \* the seeds the expansion loop has not visited yet
  d_last,        \* the last seed expanded and what its expansion returned
  ip_range_urls, \* the candidates generated so far (all_urls in Kind B)
  handed,        \* the collection given to the prober: candidate -> number of copies
  \* ---- one probing phase, task by task ----
  p_pc,          \* "gathering" | "returned"
  p_kind,        \* "check_urls_async" (Kind A, C) | "check_url" (Kind B)
  p_task,        \* per candidate: where its task is and what its requests returned
  p_sem,         \* the value of the semaphore
  valid_urls,    \* the list the prober returns
  \* ---- one probing phase at full size, by numbers of tasks ----
  l_pc,          \* "probing" | "returned"
  l_kind,        \* as p_kind
  l_waiting,     \* tasks that have not acquired the semaphore
  l_inside,      \* tasks inside the semaphore, each with one request in flight
  l_done,        \* tasks that have finished
  l_sem,         \* the value of the semaphore
  \* ---- is_valid_iptv_source, one call ----
  v_pc,          \* "manifest" | "segment" | "valid" | "invalid"
  v_path,        \* "session" (aiohttp) | "sync" (requests)
  v_attempt,     \* the loop variable attempt
  v_attempt_requests, \* requests made in this attempt
  v_requests,    \* requests made in the call
  v_manifest,    \* the response to the request for the url, while it is open
  v_segment,     \* the response to the request for the first segment
  v_log,         \* why each finished attempt failed
  \* ---- one throughput measurement ----
  m_pc,          \* "measuring" | "measured" | "done"
  m_path,        \* "m3u8" | "direct" (mobileunicast/unicast.py) | "allzj" (test_channel)
  m_bytes,       \* bytes read from the stream
  m_elapsed,     \* elapsed time in milliseconds
  m_speed,       \* the speed assigned, in thousandths of a MB/s
  m_raised,      \* the measurement raised
  m_listed,      \* the source is in the list the catalog is built from
  \* ---- the speed test of the unicast processors ----
  t_pc,          \* "testing" | "returned"
  t_impl,        \* "mobileunicast" (_test_channels_speed) | "unicast" (batch_test_speed)
  t_submitted,   \* the deduplicated channels submitted to the executor
  t_pending,     \* the futures that have not completed
  t_count,       \* per submitted channel: measurements made, assignments of speed
  tested,        \* tested_channels / results: the results in order of completion
  t_returned,    \* the list the speed test returns
  \* ---- the directory listers, one gather over the live hosts ----
  ls_pc,         \* "listing" | "gathered" | "raised"
  ls_kind,       \* "A" | "B" | "C" (all-z-j-new.py) | "B_newCSV" (newCSV.py fetch_json)
  ls_response,   \* per live host: the directory response
  ls_result,     \* per live host: whether its task is done, and the pairs it returned
  ls_channels,   \* the pairs the lister returns
  \* ---- the grouping of one channel name ----
  g_pc,          \* "named" | "grouped"
  g_impl,        \* "mobileunicast" | "unicast"
  g_name,        \* the channel name
  g_group,       \* the group it was put in
  \* ---- grouping, the TXT export and its reader ----
  x_pc,          \* "tested" | "grouped" | "written" | "parsed"
  x_impl,        \* "allzj" | "mobileunicast" | "unicast"
  x_top,         \* top_count, the sources kept per channel name
  x_tested,      \* the measured sources handed to the grouping
  x_catalog,     \* the grouped and ordered sources, the final result list
  x_file,        \* the lines of the TXT file
  x_parsed,      \* the (name, url) pairs the reader finds in the file
  \* ---- the custom sort of the result list ----
  s_pc,          \* "loaded" | "sorted"
  s_config,      \* the lines of the sort-config file
  s_channels,    \* the result list handed to apply_custom_sort
  s_result,      \* the list it returns
  \* ---- UDPXYSourceMaker.run: files and channels in worker threads ----
  u_max,         \* max_workers
  u_file,        \* per multicast file: "submitted" | "processing" | "done"
  u_chan,        \* per file, per channel to test: "submitted" | "testing" | "done"
  \* ---- update_csv: one call for one local file ----
  k_pc,          \* "called" | "fetched" | "saved" | "returned"
  k_local,       \* the local file: whether it exists, and its content
  k_before,      \* the local file as it was when the call began
  k_new,         \* the fetched content
  k_time,        \* the second on the clock, which names the backup
  k_history,     \* the files of history/ for this name: second to content
  \* ---- unicast.py download_files and parse_txt_files ----
  dl_urls,       \* self.URLS
  dl_pc,         \* per URL: "queued" | "running" | "written" | "failed" | "collected"
  dl_files,      \* downloads/: file name to the URL whose response it holds
  dl_downloaded, \* downloaded_files, in order of completion
  dl_parsed,     \* the files read by parse_txt_files, with what was read
  \* ---- the fetch phase of get_channels_alltv and get_channels_hgxtv ----
  f_pc,          \* "entering" | "gathering" | "returned"
  f_kind,        \* "A" get_channels_alltv, "C" get_channels_hgxtv
  f_sem,         \* the value of asyncio.Semaphore(50)
  f_waiting,     \* fetch tasks that have not issued their request
  f_inside,      \* fetch tasks with their request in flight
  f_done         \* fetch tasks that have returned

normVars == <<n_pc, name, n_once, n_twice>>
allzjVars == <<a_pc, channels, a_pending, channel_results, error_channels,
               optimized_results>>
discVars == <<d_pc, d_mode, rows, d_next, urls, d_todo, d_last, ip_range_urls,
              handed>>
probeVars == <<p_pc, p_kind, p_task, p_sem, valid_urls>>
loadVars == <<l_pc, l_kind, l_waiting, l_inside, l_done, l_sem>>
valVars == <<v_pc, v_path, v_attempt, v_attempt_requests, v_requests,
             v_manifest, v_segment, v_log>>
measVars == <<m_pc, m_path, m_bytes, m_elapsed, m_speed, m_raised, m_listed>>
testVars == <<t_pc, t_impl, t_submitted, t_pending, t_count, tested, t_returned>>
listVars == <<ls_pc, ls_kind, ls_response, ls_result, ls_channels>>
classVars == <<g_pc, g_impl, g_name, g_group>>
exportVars == <<x_pc, x_impl, x_top, x_tested, x_catalog, x_file, x_parsed>>
sortVars == <<s_pc, s_config, s_channels, s_result>>
udpxyVars == <<u_max, u_file, u_chan>>
csvVars == <<k_pc, k_local, k_before, k_new, k_time, k_history>>
dlVars == <<dl_urls, dl_pc, dl_files, dl_downloaded, dl_parsed>>
fetchVars == <<f_pc, f_kind, f_sem, f_waiting, f_inside, f_done>>

vars == <<normVars, allzjVars, discVars, probeVars, loadVars,
         valVars,
         measVars,
         testVars,
         listVars,
         classVars,
         exportVars,
         sortVars,
         udpxyVars,
         csvVars,
         dlVars,
         fetchVars>>

(***************************************************************************)
(* Helpers on sequences.                                                   *)
(***************************************************************************)
\* All sequences over S of length at most n.
SeqsUpTo(S, n) == UNION { [1..k -> S] : k \in 0..n }

\* The elements of a sequence, as a set.
Range(s) == { s[i] : i \in DOMAIN s }

(***************************************************************************)
(* Ordering helpers.                                                       *)
(***************************************************************************)
Min2(a, b) == IF a <= b THEN a ELSE b
Max2(a, b) == IF a >= b THEN a ELSE b

\* Python's sorted(s, key=Key): a stable sort.  KeyBefore(x, y) says that key x
\* is strictly smaller than key y; elements with equal keys keep their order.
\* Each key is computed once, as sorted() does.
StableSort(s, Key(_), KeyBefore(_, _)) ==
  LET n == Len(s)
      keys == <<>> \o [i \in 1..n |-> Key(s[i])]
      pos == <<>> \o [i \in 1..n |->
               1 + Cardinality({ j \in 1..n :
                     KeyBefore(keys[j], keys[i])
                     \/ (~KeyBefore(keys[i], keys[j]) /\ j < i) })]
  IN  [p \in 1..n |-> s[CHOOSE i \in 1..n : pos[i] = p]]

\* Python's "sub in s" on strings.
Contains(s, sub) ==
  \E i \in 0..(Len(s) - Len(sub)) : SubSeq(s, i + 1, i + Len(sub)) = sub

\* The elements of s at the indices idx, in order.
Pick(s, idx) ==
  [k \in 1..Cardinality(idx) |->
     s[CHOOSE i \in idx : Cardinality({ j \in idx : j <= i }) = k]]

\* The elements of s that satisfy Keep, in order.
Filter(s, Keep(_)) == Pick(s, { i \in DOMAIN s : Keep(s[i]) })

\* The concatenation of a sequence of sequences.
RECURSIVE Flatten(_)
Flatten(ss) == IF ss = <<>> THEN <<>> ELSE Head(ss) \o Flatten(Tail(ss))

\* The distinct values of f over s, in the order of their first occurrence:
\* the key order of a Python dict filled while iterating s.
KeysInOrder(s, f(_)) ==
  LET firsts == { i \in DOMAIN s : \A j \in 1..(i - 1) : f(s[j]) # f(s[i]) }
      at == Pick(s, firsts)
  IN  [k \in DOMAIN at |-> f(at[k])]

(***************************************************************************)
(* Channel metadata, src/all-z-j-new.py:26-127                             *)
(***************************************************************************)
\* CHANNEL_CATEGORIES, lines 26-41, in dictionary order:
\* <<keyword, category name, region, language>>.
CHANNEL_CATEGORIES ==
  << <<<<"C", "C", "T", "V">>, <<"u592E", "u89C6", "u9891", "u9053">>, <<"u4E2D", "u56FD", "u5927", "u9646">>, <<"u4E2D", "u6587">>>>,
     <<<<"u536B", "u89C6">>, <<"u536B", "u89C6", "u9891", "u9053">>, <<"u4E2D", "u56FD", "u5927", "u9646">>, <<"u4E2D", "u6587">>>>,
     <<<<"u5F71", "u89C6">>, <<"u5F71", "u89C6", "u5A31", "u4E50">>, <<>>, <<>>>>,
     <<<<"u7EFC", "u827A">>, <<"u7EFC", "u827A", "u5A31", "u4E50">>, <<>>, <<>>>>,
     <<<<"u4F53", "u80B2">>, <<"u4F53", "u80B2", "u8D5B", "u4E8B">>, <<>>, <<>>>>,
     <<<<"u65B0", "u95FB">>, <<"u65B0", "u95FB", "u8D44", "u8BAF">>, <<>>, <<>>>>,
     <<<<"u5C11", "u513F">>, <<"u5C11", "u513F", "u52A8", "u753B">>, <<>>, <<>>>>,
     <<<<"u7EAA", "u5F55">>, <<"u7EAA", "u5F55", "u7247">>, <<>>, <<>>>>,
     <<<<"u97F3", "u4E50">>, <<"u97F3", "u4E50", "u9891", "u9053">>, <<>>, <<>>>>,
     <<<<"u8D22", "u7ECF">>, <<"u8D22", "u7ECF", "u9891", "u9053">>, <<>>, <<>>>>,
     <<<<"u6559", "u80B2">>, <<"u6559", "u80B2", "u9891", "u9053">>, <<>>, <<>>>>,
     <<<<"u620F", "u66F2">>, <<"u620F", "u66F2", "u9891", "u9053">>, <<"u4E2D", "u56FD", "u5927", "u9646">>, <<"u4E2D", "u6587">>>>,
     <<<<"u56FD", "u9645">>, <<"u56FD", "u9645", "u9891", "u9053">>, <<>>, <<>>>>,
     <<<<"u6D4B", "u8BD5">>, <<"u6D4B", "u8BD5", "u9891", "u9053">>, <<>>, <<>>>> >>
\* REGION_MAPPING, lines 44-50, in dictionary order: <<code, region>>.
REGION_MAPPING ==
  << <<<<"C", "N">>, <<"u4E2D", "u56FD", "u5927", "u9646">>>>,
     <<<<"T", "W">>, <<"u4E2D", "u56FD", "u53F0", "u6E7E">>>>,
     <<<<"H", "K">>, <<"u4E2D", "u56FD", "u9999", "u6E2F">>>>,
     <<<<"M", "O">>, <<"u4E2D", "u56FD", "u6FB3", "u95E8">>>>,
     <<<<"U", "S">>, <<"u7F8E", "u56FD">>>>,
     <<<<"U", "K">>, <<"u82F1", "u56FD">>>>,
     <<<<"J", "P">>, <<"u65E5", "u672C">>>>,
     <<<<"K", "R">>, <<"u97E9", "u56FD">>>>,
     <<<<"S", "G">>, <<"u65B0", "u52A0", "u5761">>>>,
     <<<<"D", "E">>, <<"u5FB7", "u56FD">>>>,
     <<<<"F", "R">>, <<"u6CD5", "u56FD">>>>,
     <<<<"I", "T">>, <<"u610F", "u5927", "u5229">>>>,
     <<<<"E", "S">>, <<"u897F", "u73ED", "u7259">>>>,
     <<<<"R", "U">>, <<"u4FC4", "u7F57", "u65AF">>>>,
     <<<<"I", "N">>, <<"u5370", "u5EA6">>>>,
     <<<<"T", "H">>, <<"u6CF0", "u56FD">>>>,
     <<<<"A", "U">>, <<"u6FB3", "u5927", "u5229", "u4E9A">>>>,
     <<<<"C", "A">>, <<"u52A0", "u62FF", "u5927">>>> >>
\* LANGUAGE_MAPPING, lines 53-57, in dictionary order: <<code, language>>.
LANGUAGE_MAPPING ==
  << <<<<"C", "N">>, <<"u4E2D", "u6587">>>>,
     <<<<"E", "N">>, <<"u82F1", "u8BED">>>>,
     <<<<"J", "P">>, <<"u65E5", "u8BED">>>>,
     <<<<"K", "R">>, <<"u97E9", "u8BED">>>>,
     <<<<"F", "R">>, <<"u6CD5", "u8BED">>>>,
     <<<<"D", "E">>, <<"u5FB7", "u8BED">>>>,
     <<<<"E", "S">>, <<"u897F", "u73ED", "u7259", "u8BED">>>>,
     <<<<"I", "T">>, <<"u610F", "u5927", "u5229", "u8BED">>>>,
     <<<<"R", "U">>, <<"u4FC4", "u8BED">>>>,
     <<<<"A", "R">>, <<"u963F", "u62C9", "u4F2F", "u8BED">>>>,
     <<<<"T", "H">>, <<"u6CF0", "u8BED">>>> >>
\* The code point of each character of a region, language or category name:
\* Python orders strings by code point.
CodePoint ==
  "u4E2D" :> 20013 @@ "u4E50" :> 20048 @@ "u4E8B" :> 20107 @@ "u4E9A" :> 20122 @@ "u4ED6" :> 20182 @@ "u4F2F" :> 20271
  @@ "u4F53" :> 20307 @@ "u4FC4" :> 20420 @@ "u513F" :> 20799 @@ "u5176" :> 20854 @@ "u5229" :> 21033 @@ "u52A0" :> 21152
  @@ "u52A8" :> 21160 @@ "u533A" :> 21306 @@ "u536B" :> 21355 @@ "u5370" :> 21360 @@ "u53F0" :> 21488 @@ "u56FD" :> 22269
  @@ "u5730" :> 22320 @@ "u5761" :> 22369 @@ "u5927" :> 22823 @@ "u592E" :> 22830 @@ "u5A31" :> 23089 @@ "u5C11" :> 23569
  @@ "u5EA6" :> 24230 @@ "u5F55" :> 24405 @@ "u5F71" :> 24433 @@ "u5FB7" :> 24503 @@ "u610F" :> 24847 @@ "u620F" :> 25103
  @@ "u62C9" :> 25289 @@ "u62FF" :> 25343 @@ "u6559" :> 25945 @@ "u6587" :> 25991 @@ "u65AF" :> 26031 @@ "u65B0" :> 26032
  @@ "u65E5" :> 26085 @@ "u66F2" :> 26354 @@ "u672A" :> 26410 @@ "u672C" :> 26412 @@ "u6CD5" :> 27861 @@ "u6CF0" :> 27888
  @@ "u6D4B" :> 27979 @@ "u6E2F" :> 28207 @@ "u6E7E" :> 28286 @@ "u6FB3" :> 28595 @@ "u7247" :> 29255 @@ "u7259" :> 29273
  @@ "u73ED" :> 29677 @@ "u753B" :> 30011 @@ "u77E5" :> 30693 @@ "u7EAA" :> 32426 @@ "u7ECF" :> 32463 @@ "u7EFC" :> 32508
  @@ "u7F57" :> 32599 @@ "u7F8E" :> 32654 @@ "u80B2" :> 32946 @@ "u827A" :> 33402 @@ "u82F1" :> 33521 @@ "u897F" :> 35199
  @@ "u89C6" :> 35270 @@ "u8A00" :> 35328 @@ "u8BAF" :> 35759 @@ "u8BD5" :> 35797 @@ "u8BED" :> 35821 @@ "u8D22" :> 36130
  @@ "u8D44" :> 36164 @@ "u8D5B" :> 36187 @@ "u9053" :> 36947 @@ "u95E8" :> 38376 @@ "u95FB" :> 38395 @@ "u963F" :> 38463
  @@ "u9645" :> 38469 @@ "u9646" :> 38470 @@ "u97E9" :> 38889 @@ "u97F3" :> 38899 @@ "u9891" :> 39057 @@ "u9999" :> 39321
  @@ " " :> 32 @@ "." :> 46 @@ "0" :> 48 @@ "2" :> 50 @@ "9" :> 57 @@ "M" :> 77 @@ "B" :> 66 @@ "/" :> 47 @@ "s" :> 115
  @@ "+" :> 43 @@ "1" :> 49 @@ "5" :> 53 @@ "C" :> 67 @@ "T" :> 84 @@ "V" :> 86 @@ "u51E4" :> 20964 @@ "u51F0" :> 20976

\* Python's < on two strings of such characters.
RECURSIVE StrLess(_, _)
StrLess(a, b) ==
  IF b = <<>> THEN FALSE
  ELSE IF a = <<>> THEN TRUE
  ELSE IF Head(a) = Head(b) THEN StrLess(Tail(a), Tail(b))
  ELSE CodePoint[Head(a)] < CodePoint[Head(b)]

\* The index of the first entry of a table (a sequence) that satisfies Hit, 0
\* when there is none: a for loop that breaks at its first match.
FirstHit(table, Hit(_)) ==
  LET hits == { k \in DOMAIN table : Hit(table[k]) }
  IN  IF hits = {} THEN 0 ELSE CHOOSE k \in hits : \A h \in hits : k <= h

\* extract_channel_metadata, lines 80-112 (the keywords field is not modelled:
\* nothing reads it).
extract_channel_metadata(channel_name) ==
  LET InName(e) == Contains(channel_name, e[1]) \/ Contains(channel_name, e[2])
      KeywordIn(e) == Contains(channel_name, e[1])
      r == FirstHit(REGION_MAPPING, InName)
      l == FirstHit(LANGUAGE_MAPPING, InName)
      c == FirstHit(CHANNEL_CATEGORIES, KeywordIn)
      region0 == IF r = 0 THEN <<>> ELSE REGION_MAPPING[r][2]
      language0 == IF l = 0 THEN <<>> ELSE LANGUAGE_MAPPING[l][2]
  IN  [ region   |-> IF c # 0 /\ region0 = <<>> /\ CHANNEL_CATEGORIES[c][3] # <<>>
                     THEN CHANNEL_CATEGORIES[c][3] ELSE region0,
        language |-> IF c # 0 /\ language0 = <<>> /\ CHANNEL_CATEGORIES[c][4] # <<>>
                     THEN CHANNEL_CATEGORIES[c][4] ELSE language0,
        category |-> IF c = 0 THEN <<"u5176", "u4ED6", "u9891", "u9053">>
                     ELSE CHANNEL_CATEGORIES[c][2] ]

\* Lines 115-127.
get_channel_category(channel_name) == extract_channel_metadata(channel_name).category

get_channel_region(channel_name) ==
  LET region == extract_channel_metadata(channel_name).region
  IN  IF region # <<>> THEN region ELSE <<"u672A", "u77E5", "u5730", "u533A">>

get_channel_language(channel_name) ==
  LET language == extract_channel_metadata(channel_name).language
  IN  IF language # <<>> THEN language ELSE <<"u672A", "u77E5", "u8BED", "u8A00">>

(***************************************************************************)
(* channel_name_normalize, src/all-z-j-new.py:60-77                        *)
(***************************************************************************)
\* Python's str.replace(old, new): every non-overlapping occurrence of old,
\* found scanning from the left, is replaced by new.
RECURSIVE Replace(_, _, _)
Replace(s, old, new) ==
  IF Len(s) < Len(old) THEN s
  ELSE IF SubSeq(s, 1, Len(old)) = old
       THEN new \o Replace(SubSeq(s, Len(old) + 1, Len(s)), old, new)
       ELSE <<Head(s)>> \o Replace(Tail(s), old, new)

\* The tokens of the loop at line 61, in the order the loop visits them.
NoiseTokens ==
  << <<"u9AD8", "u6E05">>,
     <<"u8D85", "u9AD8">>,
     <<"H", "D">>,
     <<"u6807", "u6E05">>,
     <<"u9891", "u9053">>,
     <<"-">>,
     <<" ">>,
     <<"P", "L", "U", "S">>,
     <<"uFF0B">>,
     <<"(">>,
     <<")">> >>

\* Line 62: "PLUS" and the full-width plus become "+", the others vanish.
Replacement(rep) ==
  IF rep \in { <<"P", "L", "U", "S">>, <<"uFF0B">> } THEN <<"+">> ELSE <<>>

\* The loop of lines 61-62 from its k-th token on.
RECURSIVE StripFrom(_, _)
StripFrom(s, k) ==
  IF k > Len(NoiseTokens) THEN s
  ELSE StripFrom(Replace(s, NoiseTokens[k], Replacement(NoiseTokens[k])), k + 1)

Digit == { "0", "1", "2", "3", "4", "5", "6", "7", "8", "9" }

\* The length of the longest prefix of s made of digits.
RECURSIVE DigitRun(_)
DigitRun(s) ==
  IF s # <<>> /\ Head(s) \in Digit THEN 1 + DigitRun(Tail(s)) ELSE 0

\* The length of the match of CCTV(\d+)<tai> at the start of s, 0 when there is
\* none.  \d+ is greedy and <tai> is no digit, so there is a match exactly when
\* the longest digit run after CCTV is not empty and is followed by <tai>.
TaiMatchLen(s) ==
  IF Len(s) >= 6 /\ SubSeq(s, 1, 4) = <<"C", "C", "T", "V">>
  THEN LET d == DigitRun(SubSeq(s, 5, Len(s)))
       IN  IF d >= 1 /\ Len(s) >= d + 5 /\ s[d + 5] = "u53F0" THEN d + 5 ELSE 0
  ELSE 0

\* Line 63: re.sub(r"CCTV(\d+)<tai>", r"CCTV\1", name): each match, found
\* scanning from the left, loses its final <tai>; the scan goes on after it.
RECURSIVE SubCCTVTai(_)
SubCCTVTai(s) ==
  IF s = <<>> THEN <<>>
  ELSE LET m == TaiMatchLen(s)
       IN  IF m > 0
           THEN SubSeq(s, 1, m - 1) \o SubCCTVTai(SubSeq(s, m + 1, Len(s)))
           ELSE <<Head(s)>> \o SubCCTVTai(Tail(s))

\* The table of lines 64-75, as <<key, value>> pairs.
name_map ==
  { <<<<"C", "C", "T", "V", "1", "u7EFC", "u5408">>, <<"C", "C", "T", "V", "1">>>>,
    <<<<"C", "C", "T", "V", "2", "u8D22", "u7ECF">>, <<"C", "C", "T", "V", "2">>>>,
    <<<<"C", "C", "T", "V", "3", "u7EFC", "u827A">>, <<"C", "C", "T", "V", "3">>>>,
    <<<<"C", "C", "T", "V", "4", "u56FD", "u9645">>, <<"C", "C", "T", "V", "4">>>>,
    <<<<"C", "C", "T", "V", "4", "u4E2D", "u6587", "u56FD", "u9645">>, <<"C", "C", "T", "V", "4">>>>,
    <<<<"C", "C", "T", "V", "4", "u6B27", "u6D32">>, <<"C", "C", "T", "V", "4">>>>,
    <<<<"C", "C", "T", "V", "5", "u4F53", "u80B2">>, <<"C", "C", "T", "V", "5">>>>,
    <<<<"C", "C", "T", "V", "6", "u7535", "u5F71">>, <<"C", "C", "T", "V", "6">>>>,
    <<<<"C", "C", "T", "V", "7", "u519B", "u4E8B">>, <<"C", "C", "T", "V", "7">>>>,
    <<<<"C", "C", "T", "V", "7", "u519B", "u519C">>, <<"C", "C", "T", "V", "7">>>>,
    <<<<"C", "C", "T", "V", "7", "u519C", "u4E1A">>, <<"C", "C", "T", "V", "7">>>>,
    <<<<"C", "C", "T", "V", "7", "u56FD", "u9632", "u519B", "u4E8B">>, <<"C", "C", "T", "V", "7">>>>,
    <<<<"C", "C", "T", "V", "8", "u7535", "u89C6", "u5267">>, <<"C", "C", "T", "V", "8">>>>,
    <<<<"C", "C", "T", "V", "9", "u8BB0", "u5F55">>, <<"C", "C", "T", "V", "9">>>>,
    <<<<"C", "C", "T", "V", "9", "u7EAA", "u5F55">>, <<"C", "C", "T", "V", "9">>>>,
    <<<<"C", "C", "T", "V", "1", "0", "u79D1", "u6559">>, <<"C", "C", "T", "V", "1", "0">>>>,
    <<<<"C", "C", "T", "V", "1", "1", "u620F", "u66F2">>, <<"C", "C", "T", "V", "1", "1">>>>,
    <<<<"C", "C", "T", "V", "1", "2", "u793E", "u4F1A", "u4E0E", "u6CD5">>, <<"C", "C", "T", "V", "1", "2">>>>,
    <<<<"C", "C", "T", "V", "1", "3", "u65B0", "u95FB">>, <<"C", "C", "T", "V", "1", "3">>>>,
    <<<<"C", "C", "T", "V", "u65B0", "u95FB">>, <<"C", "C", "T", "V", "1", "3">>>>,
    <<<<"C", "C", "T", "V", "1", "4", "u5C11", "u513F">>, <<"C", "C", "T", "V", "1", "4">>>>,
    <<<<"C", "C", "T", "V", "1", "5", "u97F3", "u4E50">>, <<"C", "C", "T", "V", "1", "5">>>>,
    <<<<"C", "C", "T", "V", "1", "6", "u5965", "u6797", "u5339", "u514B">>, <<"C", "C", "T", "V", "1", "6">>>>,
    <<<<"C", "C", "T", "V", "1", "7", "u519C", "u4E1A", "u519C", "u6751">>, <<"C", "C", "T", "V", "1", "7">>>>,
    <<<<"C", "C", "T", "V", "1", "7", "u519C", "u4E1A">>, <<"C", "C", "T", "V", "1", "7">>>>,
    <<<<"C", "C", "T", "V", "5", "+", "u4F53", "u80B2", "u8D5B", "u89C6">>, <<"C", "C", "T", "V", "5", "+">>>>,
    <<<<"C", "C", "T", "V", "5", "+", "u4F53", "u80B2", "u8D5B", "u4E8B">>, <<"C", "C", "T", "V", "5", "+">>>>,
    <<<<"C", "C", "T", "V", "5", "+", "u4F53", "u80B2">>, <<"C", "C", "T", "V", "5", "+">>>> }

\* Line 76: name_map.get(name, name).
NameMapGet(s) ==
  IF \E e \in name_map : e[1] = s
  THEN (CHOOSE e \in name_map : e[1] = s)[2]
  ELSE s

channel_name_normalize(s) == NameMapGet(SubCCTVTai(StripFrom(s, 1)))

(***************************************************************************)
(* The normaliser applied to a name, then to its own output.               *)
(***************************************************************************)
MaxNameLen == 4

\* The characters the raw names are drawn from: gao, qing, "-", tai and the
\* two characters of the CCTV1 suffix in name_map.
NameAlphabet == { "u9AD8", "u6E05", "-", "u53F0", "u7EFC", "u5408" }

NamePrefixes == { <<>>, <<"C", "C", "T", "V", "1">> }

NameInputs == { p \o t : p \in NamePrefixes, t \in SeqsUpTo(NameAlphabet, MaxNameLen) }

NormIdle == n_pc = "idle" /\ name = <<>> /\ n_once = <<>> /\ n_twice = <<>>

AllzjIdle ==
  /\ a_pc = "idle"
  /\ channels = <<>>
  /\ a_pending = {}
  /\ channel_results = <<>>
  /\ error_channels = <<>>
  /\ optimized_results = <<>>

DiscIdle ==
  /\ d_pc = "idle"
  /\ d_mode = "A"
  /\ rows = <<>>
  /\ d_next = 1
  /\ urls = {}
  /\ d_todo = {}
  /\ d_last = <<>>
  /\ ip_range_urls = <<>>
  /\ handed = <<>>

ProbeIdle ==
  /\ p_pc = "idle"
  /\ p_kind = "check_url"
  /\ p_task = <<>>
  /\ p_sem = 0
  /\ valid_urls = <<>>

LoadIdle ==
  /\ l_pc = "idle"
  /\ l_kind = "check_url"
  /\ l_waiting = 0
  /\ l_inside = 0
  /\ l_done = 0
  /\ l_sem = 0

ValIdle ==
  /\ v_pc = "idle"
  /\ v_path = "session"
  /\ v_attempt = 0
  /\ v_attempt_requests = 0
  /\ v_requests = 0
  /\ v_manifest = <<>>
  /\ v_segment = <<>>
  /\ v_log = <<>>

MeasIdle ==
  /\ m_pc = "idle"
  /\ m_path = "allzj"
  /\ m_bytes = 0
  /\ m_elapsed = 0
  /\ m_speed = 0
  /\ m_raised = FALSE
  /\ m_listed = FALSE

TestIdle ==
  /\ t_pc = "idle"
  /\ t_impl = "unicast"
  /\ t_submitted = <<>>
  /\ t_pending = {}
  /\ t_count = <<>>
  /\ tested = <<>>
  /\ t_returned = <<>>

ListIdle ==
  /\ ls_pc = "idle"
  /\ ls_kind = "A"
  /\ ls_response = <<>>
  /\ ls_result = <<>>
  /\ ls_channels = <<>>

ClassIdle ==
  /\ g_pc = "idle"
  /\ g_impl = "unicast"
  /\ g_name = <<>>
  /\ g_group = "none"

ExportIdle ==
  /\ x_pc = "idle"
  /\ x_impl = "allzj"
  /\ x_top = 0
  /\ x_tested = <<>>
  /\ x_catalog = <<>>
  /\ x_file = <<>>
  /\ x_parsed = <<>>

SortIdle ==
  /\ s_pc = "idle"
  /\ s_config = <<>>
  /\ s_channels = <<>>
  /\ s_result = <<>>

UdpxyIdle ==
  /\ u_max = 0
  /\ u_file = <<>>
  /\ u_chan = <<>>

CsvIdle ==
  /\ k_pc = "idle"
  /\ k_local = <<>>
  /\ k_before = <<>>
  /\ k_new = <<>>
  /\ k_time = 0
  /\ k_history = <<>>

DlIdle ==
  /\ dl_urls = <<>>
  /\ dl_pc = <<>>
  /\ dl_files = <<>>
  /\ dl_downloaded = <<>>
  /\ dl_parsed = <<>>

FetchIdle ==
  /\ f_pc = "idle"
  /\ f_kind = "none"
  /\ f_sem = 0
  /\ f_waiting = 0
  /\ f_inside = 0
  /\ f_done = 0

NormInit ==
  /\ n_pc = "raw"
  /\ name \in NameInputs
  /\ n_once = <<>>
  /\ n_twice = <<>>
  /\ AllzjIdle
  /\ DiscIdle
  /\ ProbeIdle
  /\ LoadIdle
  /\ ValIdle
  /\ MeasIdle
  /\ TestIdle
  /\ ListIdle
  /\ ClassIdle
  /\ ExportIdle
  /\ SortIdle
  /\ UdpxyIdle
  /\ CsvIdle
  /\ DlIdle
  /\ FetchIdle

Normalize ==
  /\ n_pc = "raw"
  /\ n_once' = channel_name_normalize(name)
  /\ n_pc' = "once"
  /\ UNCHANGED <<name, n_twice>>
  /\ UNCHANGED <<allzjVars, discVars, probeVars, loadVars, valVars, measVars, testVars, listVars, classVars, exportVars, sortVars, udpxyVars, csvVars, dlVars, fetchVars>>

Renormalize ==
  /\ n_pc = "once"
  /\ n_twice' = channel_name_normalize(n_once)
  /\ n_pc' = "twice"
  /\ UNCHANGED <<name, n_once>>
  /\ UNCHANGED <<allzjVars, discVars, probeVars, loadVars, valVars, measVars, testVars, listVars, classVars, exportVars, sortVars, udpxyVars, csvVars, dlVars, fetchVars>>

NormNext == Normalize \/ Renormalize

SpecNorm == NormInit /\ [][NormNext]_vars

\* C4: channel_name_normalize is idempotent: normalising the output of the
\* normaliser gives that output again, for every raw name.
C4_Idempotent == n_pc = "twice" => n_twice = n_once

(***************************************************************************)
(* test_speed_and_output, src/all-z-j-new.py:506-596                       *)
(*                                                                         *)
(* A speed is an integer number of thousandths of a MB/s, the precision of *)
(* the 'speed' field (line 553).  A quality score is an integer number of  *)
(* hundredths, the precision of the 'quality' field (line 556):            *)
(* download_speed * 10 in hundredths is the speed in thousandths.          *)
(***************************************************************************)
QualityFloor == 10      \* 0.1
QualityCeil == 10000    \* 100

\* Line 548.
quality_score(download_speed) ==
  Min2(Max2(download_speed, QualityFloor), QualityCeil)

\* The dictionary appended at lines 550-560; category, region and language are
\* functions of the name, computed where they are read.
ChannelResult(channel, download_speed) ==
  [ name    |-> channel[1],
    url     |-> channel[2],
    speed   |-> download_speed,
    quality |-> quality_score(download_speed) ]

\* Line 588: the sources kept per channel name.
TopSources == 8

\* Line 588: key=lambda x: float(x['quality']), reverse=True.
QualityKey(r) == r.quality

Descending(x, y) == x > y

ResultName(r) == r.name

\* Lines 579-589: group by name, in each group keep the TopSources sources of
\* highest quality.
SelectBest(results) ==
  LET names == KeysInOrder(results, ResultName)
      sources(n) == Filter(results, LAMBDA r : r.name = n)
      best(n) == LET sorted_sources == StableSort(sources(n), QualityKey, Descending)
                 IN  SubSeq(sorted_sources, 1, Min2(TopSources, Len(sorted_sources)))
  IN  Flatten([k \in DOMAIN names |-> best(names[k])])

\* Lines 467-468: the position of a category name in CHANNEL_CATEGORIES, counted
\* from 0; len(category_order) for a name that is not there.
CategoryOrder(value) ==
  LET k == FirstHit(CHANNEL_CATEGORIES, LAMBDA e : e[2] = value)
  IN  IF k = 0 THEN Len(CHANNEL_CATEGORIES) ELSE k - 1

\* sort_key under the default rules, lines 449-473: category, region and
\* language ascending, quality descending.
DefaultSortKey(channel) ==
  << CategoryOrder(get_channel_category(channel.name)),
     get_channel_region(channel.name),
     get_channel_language(channel.name),
     channel.quality >>

\* The order of two such keys: Python compares the tuples field by field, and
\* the quality field holds the negated score.
DefaultKeyBefore(x, y) ==
  IF x[1] # y[1] THEN x[1] < y[1]
  ELSE IF x[2] # y[2] THEN StrLess(x[2], y[2])
  ELSE IF x[3] # y[3] THEN StrLess(x[3], y[3])
  ELSE x[4] > y[4]

\* sort_channels with the default rules, lines 442-475.
sort_channels(chs) == StableSort(chs, DefaultSortKey, DefaultKeyBefore)

\* ---- the inputs ----
MaxSources == 2

CCTV1 == <<"C", "C", "T", "V", "1">>

\* Raw names as a directory lists them; the listers normalise each one
\* (lines 282, 348, 420).  Two of them normalise to CCTV1.
CatalogRawNames ==
  { CCTV1,
    <<"C", "C", "T", "V", "-", "1">>,
    <<"u6E56", "u5357", "u536B", "u89C6">> }

CatalogUrls == { "url_a", "url_b" }

ListedPairs ==
  { <<channel_name_normalize(r), u>> : r \in CatalogRawNames, u \in CatalogUrls }

\* Short inputs: every list of at most MaxSources listed pairs (main returns
\* before the speed test when the list is empty, line 701).
ShortChannels == SeqsUpTo(ListedPairs, MaxSources) \ { <<>> }

\* A long input: one source more than TopSources, all of one channel name.
LongUrls ==
  << "url_1", "url_2", "url_3", "url_4", "url_5", "url_6", "url_7", "url_8", "url_9" >>

LongChannels == [i \in 1..(TopSources + 1) |-> <<CCTV1, LongUrls[i]>>]

IsLong(chs) == Len(chs) > MaxSources

\* The speeds a test can measure: two below the range in which the quality
\* score is clamped, one inside, two above.  The long input is measured fast.
Speeds(chs) ==
  IF IsLong(chs) THEN { 12000, 15000 } ELSE { 5, 8, 2000, 12000, 15000 }

AllzjInit ==
  /\ a_pc = "testing"
  /\ channels \in ShortChannels \cup { LongChannels }
  /\ a_pending = DOMAIN channels
  /\ channel_results = <<>>
  /\ error_channels = <<>>
  /\ optimized_results = <<>>
  /\ NormIdle
  /\ DiscIdle
  /\ ProbeIdle
  /\ LoadIdle
  /\ ValIdle
  /\ MeasIdle
  /\ TestIdle
  /\ ListIdle
  /\ ClassIdle
  /\ ExportIdle
  /\ SortIdle
  /\ UdpxyIdle
  /\ CsvIdle
  /\ DlIdle
  /\ FetchIdle

\* The tests of a short input finish in any order; those of the long input are
\* explored in list order only.
MayFinish(i) ==
  /\ a_pc = "testing"
  /\ i \in a_pending
  /\ IsLong(channels) => \A j \in a_pending : i <= j

\* C30 mutant: the result is appended and the logging that follows raises, so
\* the except clause records the channel as failed too.
TestChannelOkThenFail(i, download_speed) ==
  /\ MayFinish(i)
  /\ channel_results' = Append(channel_results, ChannelResult(channels[i], download_speed))
  /\ error_channels' = Append(error_channels, channels[i])
  /\ a_pending' = a_pending \ {i}
  /\ UNCHANGED <<a_pc, channels, optimized_results>>
  /\ UNCHANGED <<normVars, discVars, probeVars, loadVars, valVars, measVars, testVars, listVars, classVars, exportVars, sortVars, udpxyVars, csvVars, dlVars, fetchVars>>

\* test_channel, lines 511-562: both requests answered 200 and the playlist named
\* a segment; the result is appended.
TestChannelOk(i, download_speed) ==
  /\ MayFinish(i)
  /\ channel_results' = Append(channel_results, ChannelResult(channels[i], download_speed))
  /\ a_pending' = a_pending \ {i}
  /\ UNCHANGED <<a_pc, channels, error_channels, optimized_results>>
  /\ UNCHANGED <<normVars, discVars, probeVars, loadVars, valVars, measVars, testVars, listVars, classVars, exportVars, sortVars, udpxyVars, csvVars, dlVars, fetchVars>>

\* test_channel, lines 563-565: a request failed, timed out or named no segment;
\* the channel goes to error_channels.
TestChannelFail(i) ==
  /\ MayFinish(i)
  /\ ~IsLong(channels)
  /\ error_channels' = Append(error_channels, channels[i])
  /\ a_pending' = a_pending \ {i}
  /\ UNCHANGED <<a_pc, channels, channel_results, optimized_results>>
  /\ UNCHANGED <<normVars, discVars, probeVars, loadVars, valVars, measVars, testVars, listVars, classVars, exportVars, sortVars, udpxyVars, csvVars, dlVars, fetchVars>>

\* Lines 576-596, once asyncio.gather has returned: select and sort.
Rank ==
  /\ a_pc = "testing"
  /\ a_pending = {}
  /\ optimized_results' = sort_channels(SelectBest(channel_results))
  /\ a_pc' = "ranked"
  /\ UNCHANGED <<channels, a_pending, channel_results, error_channels>>
  /\ UNCHANGED <<normVars, discVars, probeVars, loadVars, valVars, measVars, testVars, listVars, classVars, exportVars, sortVars, udpxyVars, csvVars, dlVars, fetchVars>>

AllzjNext ==
  \/ \E i \in DOMAIN channels : \E s \in Speeds(channels) : TestChannelOk(i, s)
  \/ \E i \in DOMAIN channels : TestChannelFail(i)
  \/ Rank

SpecAllzj == AllzjInit /\ [][AllzjNext]_vars

\* The sources of channel name n in a list of results, in order.
SourcesOf(results, n) == Filter(results, LAMBDA r : r.name = n)

CatalogNames == { optimized_results[i].name : i \in DOMAIN optimized_results }

\* C1: the catalog handed to the exporter never holds two sources with the same
\* (canonical name, url) pair.
C1_NoDuplicateSource ==
  a_pc = "ranked" =>
    \A i, j \in DOMAIN optimized_results :
      i # j => <<optimized_results[i].name, optimized_results[i].url>>
               # <<optimized_results[j].name, optimized_results[j].url>>

\* C2: for every channel name of the catalog the retained sources are in order
\* of non-increasing speed and there are at most K of them.
C2_SortedBySpeedTopK ==
  a_pc = "ranked" =>
    \A n \in CatalogNames :
      LET kept == SourcesOf(optimized_results, n)
      IN  /\ Len(kept) <= TopSources
          /\ \A i, j \in DOMAIN kept : i < j => kept[i].speed >= kept[j].speed

\* C3: a channel with n distinct measured sources of positive speed keeps
\* exactly min(n, K) of them, and no dropped source is strictly faster than a
\* kept one.
C3_KeepsFastest ==
  a_pc = "ranked" =>
    \A n \in { channel_results[i].name : i \in DOMAIN channel_results } :
      LET measured == SourcesOf(channel_results, n)
          kept == SourcesOf(optimized_results, n)
          dropped == { r \in Range(measured) : r \notin Range(kept) }
      IN  (/\ \A i, j \in DOMAIN measured : i # j => measured[i].url # measured[j].url
           /\ \A i \in DOMAIN measured : measured[i].speed > 0)
          => /\ Len(kept) = Min2(Len(measured), TopSources)
             /\ \A d \in dropped : \A k \in Range(kept) : d.speed <= k.speed

(***************************************************************************)
(* Seed discovery: get_channels_alltv (Kind A), get_channels_newnew        *)
(* (Kind B) and get_channels_hgxtv (Kind C) of src/all-z-j-new.py, from    *)
(* the seed file to the collection handed to the prober.                   *)
(*                                                                         *)
(* A cell of the seed file is a record: kind "none" for a value csv's      *)
(* DictReader fills with None (a row shorter than the header), kind "text" *)
(* for a string, given by its parts: scheme "" when the text has no        *)
(* http:// or https:// prefix, host as the list of its dot-separated       *)
(* labels, port <<>> when the text has no ":port", <<n>> otherwise.        *)
(***************************************************************************)
Cell(kind, scheme, host, port) ==
  [kind |-> kind, scheme |-> scheme, host |-> host, port |-> port]

NoneCell == Cell("none", "", <<>>, <<>>)

EmptyCell == Cell("text", "", <<>>, <<>>)

\* "if host:" (lines 257, 383) and "if row.get('link')" (line 307).
Truthy(cell) == cell.kind = "text" /\ cell # EmptyCell

\* host.startswith(('http://', 'https://')), lines 258 and 384.
HasSchemePrefix(cell) == cell.scheme \in { "http", "https" }

Url(scheme, host, port) == [scheme |-> scheme, host |-> host, port |-> port]

\* The seed URL made of a cell: line 258 (A), line 307 (B), line 384 (C).
SeedUrl(mode, cell) ==
  IF mode = "B" \/ HasSchemePrefix(cell)
    THEN Url(cell.scheme, cell.host, cell.port)
  ELSE IF mode = "A"
    THEN Url("http", cell.host, cell.port)
  ELSE Url("http", cell.host, IF cell.port = <<>> THEN <<80>> ELSE cell.port)

\* urlparse(url).hostname is None when the text has no "//" authority or an
\* empty host.
HasHostname(url) == url.scheme # "" /\ url.host # <<>>

\* f":{parsed.port}" if parsed.port else "" (lines 265, 313, 392): an absent
\* port and port 0 both give the empty text.
PortText(url) == IF url.port # <<>> /\ url.port[1] # 0 THEN url.port ELSE <<>>

\* The fixed suffix of each kind: none (line 267), line 319, line 394.
Suffix(mode) ==
  CASE mode = "A" -> ""
    [] mode = "B" -> "/iptv/live/1000.json?key=txiptv"
    [] mode = "C" -> "/ZHGXTV/Public/json/live_interface.txt"

\* range(1, 256), lines 136 and 319.
LastOctet == 255

Candidate(scheme, prefix, octet, port, suffix) ==
  [scheme |-> scheme, prefix |-> prefix, octet |-> octet, port |-> port,
   suffix |-> suffix]

\* generate_ip_range_urls as called at lines 263-267 and 390-394, and
\* modify_urls (lines 309-321).  A hostname of None raises in split() and the
\* except clause returns [].
generate_ip_range_urls(mode, url) ==
  IF ~HasHostname(url) THEN <<>>
  ELSE IF Len(url.host) < 3 THEN <<>>
  ELSE [i \in 1..LastOctet |->
          Candidate(url.scheme, SubSeq(url.host, 1, 3), i, PortText(url),
                    Suffix(mode))]

\* set(ip_range_urls) (lines 272, 399) holds one copy of each candidate; the
\* list all_urls (lines 355-363) holds as many as were generated.
HandedCollection(mode, list) ==
  [u \in Range(list) |->
     IF mode = "B" THEN Cardinality({ i \in DOMAIN list : list[i] = u }) ELSE 1]

\* ---- the inputs ----
MaxRows == 2

Subnet1 == <<"192", "168", "1">>

DiscCells ==
  { NoneCell,
    EmptyCell,
    Cell("text", "http", <<"192", "168">>, <<8080>>),
    Cell("text", "http", Subnet1 \o <<"5">>, <<8080>>),
    Cell("text", "http", Subnet1 \o <<"9">>, <<8080>>),
    Cell("text", "http", Subnet1 \o <<"5">>, <<0>>),
    Cell("text", "", <<"10", "0", "0", "7">>, <<>>) }

NoExpansion == [done |-> FALSE, seed |-> Url("", <<>>, <<>>), out |-> <<>>]

DiscInit ==
  /\ d_pc = "reading"
  /\ d_mode \in { "A", "B", "C" }
  /\ rows \in SeqsUpTo(DiscCells, MaxRows)
  /\ d_next = 1
  /\ urls = {}
  /\ d_todo = {}
  /\ d_last = NoExpansion
  /\ ip_range_urls = <<>>
  /\ handed = <<>>
  /\ NormIdle
  /\ AllzjIdle
  /\ ProbeIdle
  /\ LoadIdle
  /\ ValIdle
  /\ MeasIdle
  /\ TestIdle
  /\ ListIdle
  /\ ClassIdle
  /\ ExportIdle
  /\ SortIdle
  /\ UdpxyIdle
  /\ CsvIdle
  /\ DlIdle
  /\ FetchIdle

\* One row of the reader loop.  Kind A and C (lines 255-258, 381-385):
\* row['host'].strip() raises AttributeError on None, the outer except clause
\* (lines 298-300, 437-439) returns [] and nothing is probed.  Kind B (line
\* 307) skips a row whose link is None or empty.
ReadRow ==
  /\ d_pc = "reading"
  /\ d_next <= Len(rows)
  /\ LET cell == rows[d_next]
     IN  IF d_mode # "B" /\ cell.kind = "none"
           THEN /\ d_pc' = "failed"
                /\ UNCHANGED urls
           ELSE /\ d_pc' = d_pc
                /\ urls' = IF Truthy(cell)
                             THEN urls \cup { SeedUrl(d_mode, cell) }
                             ELSE urls
  /\ d_next' = d_next + 1
  /\ UNCHANGED <<d_mode, rows, d_todo, d_last, ip_range_urls, handed>>
  /\ UNCHANGED <<normVars, allzjVars, probeVars, loadVars, valVars, measVars, testVars, listVars, classVars, exportVars, sortVars, udpxyVars, csvVars, dlVars, fetchVars>>

\* The reader is exhausted: the loop over the seeds starts (lines 260-261,
\* 355-356, 387-388).
EndOfFile ==
  /\ d_pc = "reading"
  /\ d_next > Len(rows)
  /\ d_pc' = "expanding"
  /\ d_todo' = urls
  /\ UNCHANGED <<d_mode, rows, d_next, urls, d_last, ip_range_urls, handed>>
  /\ UNCHANGED <<normVars, allzjVars, probeVars, loadVars, valVars, measVars, testVars, listVars, classVars, exportVars, sortVars, udpxyVars, csvVars, dlVars, fetchVars>>

\* One turn of the loop over the seeds, which are a set and come in any
\* order: lines 261-270, 356-358, 388-397.
ExpandUrl(url) ==
  /\ d_pc = "expanding"
  /\ url \in d_todo
  /\ LET out == generate_ip_range_urls(d_mode, url)
     IN  /\ ip_range_urls' = ip_range_urls \o out
         /\ d_last' = [done |-> TRUE, seed |-> url, out |-> out]
  /\ d_todo' = d_todo \ { url }
  /\ UNCHANGED <<d_pc, d_mode, rows, d_next, urls, handed>>
  /\ UNCHANGED <<normVars, allzjVars, probeVars, loadVars, valVars, measVars, testVars, listVars, classVars, exportVars, sortVars, udpxyVars, csvVars, dlVars, fetchVars>>

\* The call of the prober: lines 272, 361-364, 399.
HandToProber ==
  /\ d_pc = "expanding"
  /\ d_todo = {}
  /\ handed' = HandedCollection(d_mode, ip_range_urls)
  /\ d_pc' = "probing"
  /\ UNCHANGED <<d_mode, rows, d_next, urls, d_todo, d_last, ip_range_urls>>
  /\ UNCHANGED <<normVars, allzjVars, probeVars, loadVars, valVars, measVars, testVars, listVars, classVars, exportVars, sortVars, udpxyVars, csvVars, dlVars, fetchVars>>

DiscNext ==
  \/ ReadRow
  \/ EndOfFile
  \/ \E url \in d_todo : ExpandUrl(url)
  \/ HandToProber

SpecDiscover == DiscInit /\ [][DiscNext]_vars

\* C5: a seed whose host has at least three octets expands to exactly 255
\* candidates, one for each fourth octet 1..255, with the seed's scheme, first
\* three octets and port and the fixed suffix.
C5_Expansion ==
  (d_last.done /\ HasHostname(d_last.seed) /\ Len(d_last.seed.host) >= 3) =>
    /\ Len(d_last.out) = 255
    /\ \A i \in 1..255 :
         d_last.out[i] =
           Candidate(d_last.seed.scheme, SubSeq(d_last.seed.host, 1, 3), i,
                     d_last.seed.port, Suffix(d_mode))

\* A row whose seed has a host of at least three octets.
WellFormedRow(i) ==
  /\ Truthy(rows[i])
  /\ HasHostname(SeedUrl(d_mode, rows[i]))
  /\ Len(SeedUrl(d_mode, rows[i]).host) >= 3

\* C6: a malformed seed row contributes no candidate and every well-formed
\* row of the same file is still expanded and handed to the prober.
C6_MalformedSeedSkipped ==
  d_pc \in { "probing", "failed" } =>
    DOMAIN handed =
      UNION { Range(generate_ip_range_urls(d_mode, SeedUrl(d_mode, rows[i]))) :
                i \in { j \in DOMAIN rows : WellFormedRow(j) } }

\* C7: in every mode the collection handed to the prober holds no candidate
\* URL more than once.
C7_NoDuplicateCandidate ==
  d_pc = "probing" => \A u \in DOMAIN handed : handed[u] = 1

(***************************************************************************)
(* The liveness prober: check_urls_async with is_valid_iptv_source (Kind A *)
(* and C, lines 156-245) and check_url (Kind B, lines 323-331, 360-364).   *)
(* asyncio.gather runs one task per candidate; every request carries a     *)
(* timeout, so every request ends with one of the outcomes below.          *)
(***************************************************************************)
\* retries=3, line 237.
Retries == 3

\* concurrency=100 (line 230) and asyncio.Semaphore(500) (line 362).
Concurrency(kind) == IF kind = "check_urls_async" THEN 100 ELSE 500

\* What the request for the candidate itself can do in is_valid_iptv_source
\* (lines 174-187): raise (timeout, connection error, a body text() cannot
\* decode), answer another status than 200, answer 200 with a body that does
\* not start with #EXTM3U or names no segment, or answer 200 with a manifest.
ManifestOutcomes ==
  { "timeout", "connection_error", "non200", "unreadable", "nomarker",
    "nosegments", "manifest" }

\* What the request for the first segment can do (lines 195-197).
SegmentOutcomes == { "timeout", "connection_error", "non200", "empty", "data" }

\* What the one request of check_url can do (lines 327-331); the body is
\* never read.
CheckUrlOutcomes ==
  { "timeout", "connection_error", "non200", "200", "200_unreadable" }

\* The status line an outcome carried, "error" if none arrived.
StatusOf(outcome) ==
  IF outcome \in { "timeout", "connection_error" } THEN "error"
  ELSE IF outcome = "non200" THEN "non200"
  ELSE "200"

\* How a request ended for the task: it raised, it was answered but not as
\* the probe requires, or it was answered as required.
Class(outcome) ==
  IF outcome \in { "timeout", "connection_error", "unreadable" } THEN "raised"
  ELSE IF outcome \in { "manifest", "data", "200", "200_unreadable" } THEN "passed"
  ELSE "refused"

NewTask ==
  [at |-> "waiting", attempt |-> 0, requests |-> "none", first |-> "none",
   last |-> "none", result |-> "none"]

\* A request was made and ended with this outcome.  The task records whether
\* it has made no, one or several requests, the status of its first request
\* and how its last request ended.
Requested(t, outcome) ==
  [t EXCEPT !.requests = IF @ = "none" THEN "one" ELSE "several",
            !.first = IF @ = "none" THEN StatusOf(outcome) ELSE @,
            !.last = Class(outcome)]

\* "continue" (lines 176, 181, 187, 225) and the fall-through after line 196:
\* the next turn of "for attempt in range(retries)", or "return None" (line
\* 227) after the last one.
NextAttempt(t) ==
  IF t.attempt + 1 < Retries
    THEN [t EXCEPT !.at = "manifest", !.attempt = @ + 1]
    ELSE [t EXCEPT !.at = "done", !.result = "dead"]

\* ---- the inputs ----
MaxCandidates == 2

ProbeInit ==
  /\ p_pc = "gathering"
  /\ p_kind \in { "check_urls_async", "check_url" }
  /\ \E n \in 1..MaxCandidates : p_task = [c \in 1..n |-> NewTask]
  /\ p_sem = Concurrency(p_kind)
  /\ valid_urls = <<>>
  /\ NormIdle
  /\ AllzjIdle
  /\ DiscIdle
  /\ LoadIdle
  /\ ValIdle
  /\ MeasIdle
  /\ TestIdle
  /\ ListIdle
  /\ ClassIdle
  /\ ExportIdle
  /\ SortIdle
  /\ UdpxyIdle
  /\ CsvIdle
  /\ DlIdle
  /\ FetchIdle

\* "async with semaphore", lines 235 and 324.
AcquireSemaphore(c) ==
  /\ p_pc = "gathering"
  /\ p_task[c].at = "waiting"
  /\ p_sem > 0
  /\ p_sem' = p_sem - 1
  /\ p_task' = [p_task EXCEPT
       ![c].at = IF p_kind = "check_urls_async" THEN "manifest" ELSE "request"]
  /\ UNCHANGED <<p_pc, p_kind, valid_urls>>
  /\ UNCHANGED <<normVars, allzjVars, discVars, loadVars, valVars, measVars, testVars, listVars, classVars, exportVars, sortVars, udpxyVars, csvVars, dlVars, fetchVars>>

\* The semaphore is released when the task leaves "async with semaphore".
Settle(c, t) ==
  /\ p_task' = [p_task EXCEPT ![c] = t]
  /\ p_sem' = IF t.at = "done" THEN p_sem + 1 ELSE p_sem

\* C10 mutant: the request for the candidate without the except clause of
\* line 223; an exception leaves the task and asyncio.gather raises it.
ManifestRequestUncaught(c, outcome) ==
  /\ p_pc = "gathering"
  /\ p_task[c].at = "manifest"
  /\ LET t == Requested(p_task[c], outcome)
     IN  IF outcome = "manifest"
           THEN Settle(c, [t EXCEPT !.at = "segment"]) /\ UNCHANGED p_pc
         ELSE IF Class(outcome) = "raised"
           THEN /\ Settle(c, [t EXCEPT !.at = "done"])
                /\ p_pc' = "aborted"
         ELSE Settle(c, NextAttempt(t)) /\ UNCHANGED p_pc
  /\ UNCHANGED <<p_kind, valid_urls>>
  /\ UNCHANGED <<normVars, allzjVars, discVars, loadVars, valVars, measVars, testVars, listVars, classVars, exportVars, sortVars, udpxyVars, csvVars, dlVars, fetchVars>>

\* is_valid_iptv_source, lines 174-187 and 223-225: the request for the
\* candidate.  Every exception is caught at line 223.
ManifestRequest(c, outcome) ==
  /\ p_pc = "gathering"
  /\ p_task[c].at = "manifest"
  /\ LET t == Requested(p_task[c], outcome)
     IN  IF outcome = "manifest"
           THEN Settle(c, [t EXCEPT !.at = "segment"])
           ELSE Settle(c, NextAttempt(t))
  /\ UNCHANGED <<p_pc, p_kind, valid_urls>>
  /\ UNCHANGED <<normVars, allzjVars, discVars, loadVars, valVars, measVars, testVars, listVars, classVars, exportVars, sortVars, udpxyVars, csvVars, dlVars, fetchVars>>

\* is_valid_iptv_source, lines 195-197 and 223-225: the request for the
\* first segment; "return url" when it answers 200 with data.
SegmentRequest(c, outcome) ==
  /\ p_pc = "gathering"
  /\ p_task[c].at = "segment"
  /\ LET t == Requested(p_task[c], outcome)
     IN  IF outcome = "data"
           THEN Settle(c, [t EXCEPT !.at = "done", !.result = "live"])
           ELSE Settle(c, NextAttempt(t))
  /\ UNCHANGED <<p_pc, p_kind, valid_urls>>
  /\ UNCHANGED <<normVars, allzjVars, discVars, loadVars, valVars, measVars, testVars, listVars, classVars, exportVars, sortVars, udpxyVars, csvVars, dlVars, fetchVars>>

\* check_url, lines 325-331.
CheckUrlRequest(c, outcome) ==
  /\ p_pc = "gathering"
  /\ p_task[c].at = "request"
  /\ LET t == Requested(p_task[c], outcome)
     IN  Settle(c, [t EXCEPT !.at = "done",
                             !.result = IF StatusOf(outcome) = "200"
                                          THEN "live" ELSE "dead"])
  /\ UNCHANGED <<p_pc, p_kind, valid_urls>>
  /\ UNCHANGED <<normVars, allzjVars, discVars, loadVars, valVars, measVars, testVars, listVars, classVars, exportVars, sortVars, udpxyVars, csvVars, dlVars, fetchVars>>

\* asyncio.gather returns when every task has; lines 244-245 and 364 keep the
\* results that are not None, in the order of the candidates.
GatherReturns ==
  /\ p_pc = "gathering"
  /\ \A c \in DOMAIN p_task : p_task[c].at = "done"
  /\ valid_urls' =
       Pick([c \in DOMAIN p_task |-> c],
            { c \in DOMAIN p_task : p_task[c].result = "live" })
  /\ p_pc' = "returned"
  /\ UNCHANGED <<p_kind, p_task, p_sem>>
  /\ UNCHANGED <<normVars, allzjVars, discVars, loadVars, valVars, measVars, testVars, listVars, classVars, exportVars, sortVars, udpxyVars, csvVars, dlVars, fetchVars>>

ProbeNext ==
  \/ \E c \in DOMAIN p_task : AcquireSemaphore(c)
  \/ \E c \in DOMAIN p_task : \E outcome \in ManifestOutcomes :
       ManifestRequest(c, outcome)
  \/ \E c \in DOMAIN p_task : \E outcome \in SegmentOutcomes :
       SegmentRequest(c, outcome)
  \/ \E c \in DOMAIN p_task : \E outcome \in CheckUrlOutcomes :
       CheckUrlRequest(c, outcome)
  \/ GatherReturns

SpecProbe == ProbeInit /\ [][ProbeNext]_vars

\* The event loop runs every task that is ready, and every request ends
\* within its timeout (timeout=8, 10 and 5, lines 174, 195, 327).
SpecProbeFair == SpecProbe /\ WF_vars(ProbeNext)

\* C8: each candidate is resolved with a single request, and it is in the
\* returned live set if and only if that request answered status 200.
C8_SingleRequestStatusOnly ==
  p_pc = "returned" =>
    \A c \in DOMAIN p_task :
      /\ p_task[c].requests = "one"
      /\ (c \in Range(valid_urls)) <=> (p_task[c].first = "200")

\* The last request of the candidate's task succeeded.
LastSucceeded(c) == p_task[c].last = "passed"

EveryCandidateResolved ==
  \A c \in DOMAIN p_task :
    /\ p_task[c].at = "done"
    /\ p_task[c].result \in { "live", "dead" }
    /\ (c \in Range(valid_urls)) <=> LastSucceeded(c)

\* C10: whatever the outcomes of the requests, probing eventually returns, it
\* returns only after every candidate is resolved, and a candidate is reported
\* live or dead by the outcome of its own requests alone.
C10_NeverAborts ==
  /\ <>(p_pc = "returned")
  /\ [](p_pc = "returned" => EveryCandidateResolved)

\* C10 witness: probing has returned with a candidate whose request raised
\* reported dead next to one reported live.
C10_Witness ==
  /\ p_pc = "returned"
  /\ \E c, d \in DOMAIN p_task :
       /\ p_task[c].last = "raised"
       /\ c \notin Range(valid_urls)
       /\ d \in Range(valid_urls)

(***************************************************************************)
(* The same probing phase with as many candidates as the expansion of the  *)
(* seeds gives, counted rather than named: the tasks are alike, and a task *)
(* inside the semaphore has exactly one request in flight (a retry issues  *)
(* the next request of the task when the previous one has ended).          *)
(***************************************************************************)
MaxLoadSeeds == 2

LoadInit ==
  /\ l_pc = "probing"
  /\ l_kind \in { "check_urls_async", "check_url" }
  /\ \E seeds \in 1..MaxLoadSeeds : l_waiting = seeds * LastOctet
  /\ l_inside = 0
  /\ l_done = 0
  /\ l_sem = Concurrency(l_kind)
  /\ NormIdle
  /\ AllzjIdle
  /\ DiscIdle
  /\ ProbeIdle
  /\ ValIdle
  /\ MeasIdle
  /\ TestIdle
  /\ ListIdle
  /\ ClassIdle
  /\ ExportIdle
  /\ SortIdle
  /\ UdpxyIdle
  /\ CsvIdle
  /\ DlIdle
  /\ FetchIdle

\* C9 mutant: a task issues its request without waiting for the semaphore.
LoadAcquireUnguarded ==
  /\ l_pc = "probing"
  /\ l_waiting > 0
  /\ l_sem' = l_sem - 1
  /\ l_waiting' = l_waiting - 1
  /\ l_inside' = l_inside + 1
  /\ UNCHANGED <<l_pc, l_kind, l_done>>
  /\ UNCHANGED <<normVars, allzjVars, discVars, probeVars, valVars, measVars, testVars, listVars, classVars, exportVars, sortVars, udpxyVars, csvVars, dlVars, fetchVars>>

\* A task enters "async with semaphore" (lines 235, 324) and issues its
\* request.
LoadAcquire ==
  /\ l_pc = "probing"
  /\ l_waiting > 0
  /\ l_sem > 0
  /\ l_sem' = l_sem - 1
  /\ l_waiting' = l_waiting - 1
  /\ l_inside' = l_inside + 1
  /\ UNCHANGED <<l_pc, l_kind, l_done>>
  /\ UNCHANGED <<normVars, allzjVars, discVars, probeVars, valVars, measVars, testVars, listVars, classVars, exportVars, sortVars, udpxyVars, csvVars, dlVars, fetchVars>>

\* The last request of a task has ended, in any order among the tasks inside;
\* the task leaves the semaphore.
LoadRelease ==
  /\ l_pc = "probing"
  /\ l_inside > 0
  /\ l_sem' = l_sem + 1
  /\ l_inside' = l_inside - 1
  /\ l_done' = l_done + 1
  /\ UNCHANGED <<l_pc, l_kind, l_waiting>>
  /\ UNCHANGED <<normVars, allzjVars, discVars, probeVars, valVars, measVars, testVars, listVars, classVars, exportVars, sortVars, udpxyVars, csvVars, dlVars, fetchVars>>

\* asyncio.gather returns (lines 244, 364).
LoadReturn ==
  /\ l_pc = "probing"
  /\ l_waiting = 0
  /\ l_inside = 0
  /\ l_pc' = "returned"
  /\ UNCHANGED <<l_kind, l_waiting, l_inside, l_done, l_sem>>
  /\ UNCHANGED <<normVars, allzjVars, discVars, probeVars, valVars, measVars, testVars, listVars, classVars, exportVars, sortVars, udpxyVars, csvVars, dlVars, fetchVars>>

LoadNext ==
  \/ LoadAcquire
  \/ LoadRelease
  \/ LoadReturn

SpecLoad == LoadInit /\ [][LoadNext]_vars

\* C9: at every moment of a probing phase the number of requests in flight is
\* at most the concurrency bound of the prober, 100 or 500.
C9_BoundedInFlight ==
  l_inside <= (IF l_kind = "check_urls_async" THEN 100 ELSE 500)

\* C9 witness: the bound is reached while further candidates wait.
C9_Witness ==
  /\ l_inside = (IF l_kind = "check_urls_async" THEN 100 ELSE 500)
  /\ l_waiting > 0

(***************************************************************************)
(* is_valid_iptv_source, src/all-z-j-new.py:156-227, one call: the path    *)
(* with an aiohttp session (lines 173-197) and the path without (lines     *)
(* 198-222).                                                               *)
(*                                                                         *)
(* A line of a response body is given by how it starts and how it ends.    *)
(***************************************************************************)
Line(prefix, suffix) == [prefix |-> prefix, suffix |-> suffix]

\* content.startswith('#EXTM3U'), lines 179 and 204.
StartsWithMarker(body) == body # <<>> /\ body[1].prefix = "#EXTM3U"

\* line.startswith('#'), lines 184 and 209.
IsComment(line) == line.prefix \in { "#EXTM3U", "#EXTINF" }

\* line.endswith(('.ts', '.m3u8')), lines 184 and 209.
EndsAsSegment(line) == line.suffix \in { ".ts", ".m3u8" }

\* ts_files, lines 184 and 209.
ts_files(body) ==
  Pick(body, { i \in DOMAIN body : ~IsComment(body[i]) /\ EndsAsSegment(body[i]) })

\* read(1024) at line 196, "> 1024" at line 221.
SegmentBytes == 1024

\* Line 196 (session): status 200 and a first read that returns any data.
\* Line 221 (sync): status 200 and a body of more than 1024 bytes.
SegmentAccepted(path, resp) ==
  /\ resp.status = 200
  /\ IF path = "session" THEN resp.size > 0 ELSE resp.size > SegmentBytes

NoManifest == [status |-> 0, body |-> <<>>]

NoSegment == [status |-> 0, size |-> 0, first |-> "none"]

\* ---- the inputs ----
MaxBodyLines == 2

ManifestLines ==
  { Line(p, s) : p \in { "#EXTM3U", "#EXTINF", "seg" }, s \in { ".ts", ".m3u8", "" } }

ManifestResponses ==
  [status : { 200, 404 }, body : SeqsUpTo(ManifestLines, MaxBodyLines)]

SegmentResponses ==
  { r \in [status : { 200, 404 },
           size : { 0, 1, SegmentBytes, SegmentBytes + 1 },
           first : { "none", "0x47", "other" }] :
      (r.size = 0) <=> (r.first = "none") }

ValInit ==
  /\ v_pc = "manifest"
  /\ v_path \in { "session", "sync" }
  /\ v_attempt = 0
  /\ v_attempt_requests = 0
  /\ v_requests = 0
  /\ v_manifest = NoManifest
  /\ v_segment = NoSegment
  /\ v_log = <<>>
  /\ NormIdle
  /\ AllzjIdle
  /\ DiscIdle
  /\ ProbeIdle
  /\ LoadIdle
  /\ MeasIdle
  /\ TestIdle
  /\ ListIdle
  /\ ClassIdle
  /\ ExportIdle
  /\ SortIdle
  /\ UdpxyIdle
  /\ CsvIdle
  /\ DlIdle
  /\ FetchIdle

\* C13 mutant: the loop runs one attempt more than retries.
EndAttemptOneMore(why) ==
  /\ v_log' = Append(v_log, why)
  /\ v_attempt' = v_attempt + 1
  /\ v_pc' = IF v_attempt + 1 < Retries + 1 THEN "manifest" ELSE "invalid"
  /\ v_manifest' = NoManifest
  /\ v_segment' = NoSegment

\* "continue" (lines 176, 181, 187, 225 and 202, 206, 212), or the end of the
\* loop body after line 196 or 221: the responses are closed and the loop
\* "for attempt in range(retries)" goes on, to "return None" (line 227) after
\* the last turn.
EndAttempt(why) ==
  /\ v_log' = Append(v_log, why)
  /\ v_attempt' = v_attempt + 1
  /\ v_pc' = IF v_attempt + 1 < Retries THEN "manifest" ELSE "invalid"
  /\ v_manifest' = NoManifest
  /\ v_segment' = NoSegment

\* C11 mutant: the request for the url without the test of line 179 / 204.
FetchManifestUnchecked(resp) ==
  /\ v_pc = "manifest"
  /\ v_requests' = v_requests + 1
  /\ v_attempt_requests' = 1
  /\ IF resp.status # 200 THEN EndAttempt("status")
     ELSE IF ts_files(resp.body) = <<>> THEN EndAttempt("segments")
     ELSE /\ v_pc' = "segment"
          /\ v_manifest' = resp
          /\ UNCHANGED <<v_attempt, v_segment, v_log>>
  /\ UNCHANGED v_path
  /\ UNCHANGED <<normVars, allzjVars, discVars, probeVars, loadVars, measVars, testVars, listVars, classVars, exportVars, sortVars, udpxyVars, csvVars, dlVars, fetchVars>>

\* Lines 174-187 and 200-212: the request for the url is answered.
FetchManifest(resp) ==
  /\ v_pc = "manifest"
  /\ v_requests' = v_requests + 1
  /\ v_attempt_requests' = 1
  /\ IF resp.status # 200 THEN EndAttempt("status")
     ELSE IF ~StartsWithMarker(resp.body) THEN EndAttempt("marker")
     ELSE IF ts_files(resp.body) = <<>> THEN EndAttempt("segments")
     ELSE /\ v_pc' = "segment"
          /\ v_manifest' = resp
          /\ UNCHANGED <<v_attempt, v_segment, v_log>>
  /\ UNCHANGED v_path
  /\ UNCHANGED <<normVars, allzjVars, discVars, probeVars, loadVars, measVars, testVars, listVars, classVars, exportVars, sortVars, udpxyVars, csvVars, dlVars, fetchVars>>

\* Lines 223-225: the request for the url, or reading its body, raises
\* (timeout, connection error, a body that cannot be decoded).
ManifestRaises ==
  /\ v_pc = "manifest"
  /\ v_requests' = v_requests + 1
  /\ v_attempt_requests' = 1
  /\ EndAttempt("raised")
  /\ UNCHANGED v_path
  /\ UNCHANGED <<normVars, allzjVars, discVars, probeVars, loadVars, measVars, testVars, listVars, classVars, exportVars, sortVars, udpxyVars, csvVars, dlVars, fetchVars>>

\* Lines 195-197 and 220-222: the request for the first segment is answered;
\* "return url" when it is accepted.
FetchSegment(resp) ==
  /\ v_pc = "segment"
  /\ v_requests' = v_requests + 1
  /\ v_attempt_requests' = 2
  /\ IF SegmentAccepted(v_path, resp)
       THEN /\ v_pc' = "valid"
            /\ v_segment' = resp
            /\ UNCHANGED <<v_attempt, v_manifest, v_log>>
       ELSE EndAttempt("segment")
  /\ UNCHANGED v_path
  /\ UNCHANGED <<normVars, allzjVars, discVars, probeVars, loadVars, measVars, testVars, listVars, classVars, exportVars, sortVars, udpxyVars, csvVars, dlVars, fetchVars>>

\* Lines 223-225: the request for the first segment raises.
SegmentRaises ==
  /\ v_pc = "segment"
  /\ v_requests' = v_requests + 1
  /\ v_attempt_requests' = 2
  /\ EndAttempt("raised")
  /\ UNCHANGED v_path
  /\ UNCHANGED <<normVars, allzjVars, discVars, probeVars, loadVars, measVars, testVars, listVars, classVars, exportVars, sortVars, udpxyVars, csvVars, dlVars, fetchVars>>

ValNext ==
  \/ \E resp \in ManifestResponses : FetchManifest(resp)
  \/ ManifestRaises
  \/ \E resp \in SegmentResponses : FetchSegment(resp)
  \/ SegmentRaises

SpecValidate == ValInit /\ [][ValNext]_vars

\* Every request carries a timeout (timeout=8 and 10, lines 174, 195, 200,
\* 220), so a request that is made ends.
SpecValidateFair == SpecValidate /\ WF_vars(ValNext)

\* C11: the url is never reported valid unless the manifest fetched in that
\* attempt starts with #EXTM3U and has a line that is not a comment and ends
\* in .ts or .m3u8; a manifest without them fails its attempt on every try.
C11_MarkerAndSegmentRequired ==
  /\ v_pc = "valid" =>
       /\ v_manifest.body # <<>>
       /\ v_manifest.body[1].prefix = "#EXTM3U"
       /\ \E i \in DOMAIN v_manifest.body :
            /\ v_manifest.body[i].prefix = "seg"
            /\ v_manifest.body[i].suffix \in { ".ts", ".m3u8" }
  /\ v_pc = "segment" => v_manifest.body[1].prefix = "#EXTM3U"

\* C11 witness: a call ended invalid after a manifest without the marker was
\* rejected in each of its attempts.
C11_Witness ==
  v_pc = "invalid" /\ \A i \in DOMAIN v_log : v_log[i] = "marker"

\* C12: the url is reported valid only if the first segment answered status
\* 200 with a body longer than 1 KB or starting with the sync byte 0x47.
C12_SegmentThreshold ==
  v_pc = "valid" =>
    /\ v_segment.status = 200
    /\ (v_segment.size > 1024 \/ v_segment.first = "0x47")

\* C13: a call makes at most retries attempts of at most two requests each,
\* ends valid or invalid, valid at the first attempt that succeeds and
\* invalid only after retries failed attempts, and makes no request after.
C13_TerminatesInBudget ==
  /\ <>(v_pc \in { "valid", "invalid" })
  /\ [](/\ Len(v_log) = v_attempt
        /\ v_attempt <= 3
        /\ v_attempt_requests <= 2
        /\ v_requests <= 2 * (v_attempt + 1)
        /\ v_requests <= 2 * 3
        /\ v_pc = "valid" => v_attempt < 3 /\ v_attempt_requests = 2
        /\ v_pc = "invalid" => v_attempt = 3)
  /\ [][(v_pc \in { "valid", "invalid" }) => (valVars' = valVars)]_vars

\* C13 witness: a call ended invalid with the whole budget spent, two
\* requests in each of its three attempts.
C13_Witness == v_pc = "invalid" /\ v_requests = 6

(***************************************************************************)
(* One throughput measurement and its way into the catalog:                *)
(* _test_m3u8_stream and _test_direct_stream of                            *)
(* src/mobileunicast/unicast.py (lines 449-531, filter at line 171), and   *)
(* test_channel of src/all-z-j-new.py (lines 538-565).                     *)
(***************************************************************************)
\* min_size = 256 * 1024, mobileunicast/unicast.py lines 466 and 509.
min_size == 262144

\* bytes / seconds / 1024 / 1024 in thousandths of a MB/s, rounded to the
\* nearest, for a whole number of KB; elapsed is in milliseconds and positive.
\* (1000000 / 1048576 = 15625 / 16384.)
MBPerSecond(bytes, elapsed) ==
  (2 * (bytes \div 1024) * 15625 + elapsed * 16) \div (2 * elapsed * 16)

\* round(downloaded / elapsed / 1024 / 1024, 2), lines 481 and 523: a multiple
\* of ten thousandths.
RoundedSpeed(bytes, elapsed) == ((MBPerSecond(bytes, elapsed) + 5) \div 10) * 10

MeasInit ==
  /\ m_pc = "measuring"
  /\ m_path \in { "m3u8", "direct", "allzj" }
  /\ m_bytes \in { 0, 1024, min_size - 1024, min_size, 2097152 }
  /\ m_elapsed \in { -1, 0, 10, 1000, 9000 }
  /\ m_speed = 0
  /\ m_raised = FALSE
  /\ m_listed = FALSE
  /\ NormIdle
  /\ AllzjIdle
  /\ DiscIdle
  /\ ProbeIdle
  /\ LoadIdle
  /\ ValIdle
  /\ TestIdle
  /\ ListIdle
  /\ ClassIdle
  /\ ExportIdle
  /\ SortIdle
  /\ UdpxyIdle
  /\ CsvIdle
  /\ DlIdle
  /\ FetchIdle

\* mobileunicast/unicast.py lines 479-483 and 521-525.
TestStream ==
  /\ m_pc = "measuring"
  /\ m_path \in { "m3u8", "direct" }
  /\ m_speed' = IF m_elapsed > 0 /\ m_bytes >= min_size
                  THEN RoundedSpeed(m_bytes, m_elapsed)
                  ELSE 0
  /\ m_pc' = "measured"
  /\ UNCHANGED <<m_path, m_bytes, m_elapsed, m_raised, m_listed>>
  /\ UNCHANGED <<normVars, allzjVars, discVars, probeVars, loadVars, valVars, testVars, listVars, classVars, exportVars, sortVars, udpxyVars, csvVars, dlVars, fetchVars>>

\* all-z-j-new.py lines 543-545: file_size / ts_time / 1024 / 1024 raises
\* ZeroDivisionError when ts_time is 0 and is negative when ts_time is.
test_channel ==
  /\ m_pc = "measuring"
  /\ m_path = "allzj"
  /\ m_raised' = (m_elapsed = 0)
  /\ m_speed' = IF m_elapsed > 0 THEN MBPerSecond(m_bytes, m_elapsed)
                ELSE IF m_elapsed < 0 THEN 0 - MBPerSecond(m_bytes, 0 - m_elapsed)
                ELSE 0
  /\ m_pc' = "measured"
  /\ UNCHANGED <<m_path, m_bytes, m_elapsed, m_listed>>
  /\ UNCHANGED <<normVars, allzjVars, discVars, probeVars, loadVars, valVars, testVars, listVars, classVars, exportVars, sortVars, udpxyVars, csvVars, dlVars, fetchVars>>

\* mobileunicast/unicast.py line 171 keeps the channels with speed > 0;
\* all-z-j-new.py lines 550-564 append every result that did not raise to
\* channel_results, from which the catalog is taken (lines 582-589).
KeepMeasured ==
  /\ m_pc = "measured"
  /\ m_listed' = IF m_path = "allzj" THEN ~m_raised ELSE m_speed > 0
  /\ m_pc' = "done"
  /\ UNCHANGED <<m_path, m_bytes, m_elapsed, m_speed, m_raised>>
  /\ UNCHANGED <<normVars, allzjVars, discVars, probeVars, loadVars, valVars, testVars, listVars, classVars, exportVars, sortVars, udpxyVars, csvVars, dlVars, fetchVars>>

MeasNext == TestStream \/ test_channel \/ KeepMeasured

SpecMeasure == MeasInit /\ [][MeasNext]_vars

\* C14: a source whose measurement read fewer than 256 KB, or took no
\* positive time, gets speed 0 and is not in the catalog.
C14_ShortMeasurementExcluded ==
  (m_pc = "done" /\ (m_bytes < 262144 \/ m_elapsed <= 0)) =>
    (m_speed = 0 /\ ~m_listed)

(***************************************************************************)
(* The speed test of the unicast processors: _test_channels_speed of       *)
(* src/mobileunicast/unicast.py (lines 391-447) and batch_test_speed of    *)
(* src/unicast.py (lines 482-531).  One future per channel; the measuring  *)
(* functions catch every exception and return the channel with speed 0.    *)
(***************************************************************************)
MaxTested == 3

\* The deduplicated lists (mobileunicast line 166, unicast.py lines 487-493)
\* of at least one channel (mobileunicast line 161, unicast.py line 714).
TestInit ==
  /\ t_pc = "testing"
  /\ t_impl \in { "mobileunicast", "unicast" }
  /\ t_submitted \in
       { s \in SeqsUpTo({ "A", "B" } \X { "u1", "u2" }, MaxTested) :
           s # <<>> /\ \A i, j \in DOMAIN s : i # j => s[i] # s[j] }
  /\ t_pending = DOMAIN t_submitted
  /\ t_count = [i \in DOMAIN t_submitted |-> [measured |-> 0, assigned |-> 0]]
  /\ tested = <<>>
  /\ t_returned = <<>>
  /\ NormIdle
  /\ AllzjIdle
  /\ DiscIdle
  /\ ProbeIdle
  /\ LoadIdle
  /\ ValIdle
  /\ MeasIdle
  /\ ListIdle
  /\ ClassIdle
  /\ ExportIdle
  /\ SortIdle
  /\ UdpxyIdle
  /\ CsvIdle
  /\ DlIdle
  /\ FetchIdle

\* C15 mutant: a measurement that failed is left out of the results.
FutureCompletesDropFailed(i, speed) ==
  /\ t_pc = "testing"
  /\ i \in t_pending
  /\ t_pending' = t_pending \ { i }
  /\ t_count' = [t_count EXCEPT ![i] = [measured |-> @.measured + 1,
                                        assigned |-> @.assigned + 1]]
  /\ tested' = IF speed = 0 THEN tested
               ELSE Append(tested, [name |-> t_submitted[i][1],
                                    url |-> t_submitted[i][2], speed |-> speed])
  /\ UNCHANGED <<t_pc, t_impl, t_submitted, t_returned>>
  /\ UNCHANGED <<normVars, allzjVars, discVars, probeVars, loadVars, valVars, measVars, listVars, classVars, exportVars, sortVars, udpxyVars, csvVars, dlVars, fetchVars>>

\* A future completes and as_completed yields it (mobileunicast lines 406-410,
\* unicast.py lines 511-513).  Its function measured the channel once and set
\* its speed once: to the measured speed, or to 0 when the data were too few
\* or a request raised (mobileunicast lines 444-447, 479-489, 521-531;
\* unicast.py lines 361-366, 410-423).
FutureCompletes(i, speed) ==
  /\ t_pc = "testing"
  /\ i \in t_pending
  /\ t_pending' = t_pending \ { i }
  /\ t_count' = [t_count EXCEPT ![i] = [measured |-> @.measured + 1,
                                        assigned |-> @.assigned + 1]]
  /\ tested' = Append(tested, [name |-> t_submitted[i][1],
                               url |-> t_submitted[i][2], speed |-> speed])
  /\ UNCHANGED <<t_pc, t_impl, t_submitted, t_returned>>
  /\ UNCHANGED <<normVars, allzjVars, discVars, probeVars, loadVars, valVars, measVars, listVars, classVars, exportVars, sortVars, udpxyVars, csvVars, dlVars, fetchVars>>

\* C24 mutant: the loop over the futures is left while measurements are still
\* running, and the results so far are returned.
ReturnTestedEarly ==
  /\ t_pc = "testing"
  /\ t_returned' = IF t_impl = "mobileunicast" THEN tested
                   ELSE Filter(tested, LAMBDA c : c.speed > 0)
  /\ t_pc' = "returned"
  /\ UNCHANGED <<t_impl, t_submitted, t_pending, t_count, tested>>
  /\ UNCHANGED <<normVars, allzjVars, discVars, probeVars, loadVars, valVars, measVars, listVars, classVars, exportVars, sortVars, udpxyVars, csvVars, dlVars, fetchVars>>

\* mobileunicast line 427 returns tested_channels; unicast.py lines 528-531
\* return the results with speed > 0.
ReturnTested ==
  /\ t_pc = "testing"
  /\ t_pending = {}
  /\ t_returned' = IF t_impl = "mobileunicast" THEN tested
                   ELSE Filter(tested, LAMBDA c : c.speed > 0)
  /\ t_pc' = "returned"
  /\ UNCHANGED <<t_impl, t_submitted, t_pending, t_count, tested>>
  /\ UNCHANGED <<normVars, allzjVars, discVars, probeVars, loadVars, valVars, measVars, listVars, classVars, exportVars, sortVars, udpxyVars, csvVars, dlVars, fetchVars>>

TestNext ==
  \/ \E i \in DOMAIN t_submitted : \E speed \in { 0, 1500 } : FutureCompletes(i, speed)
  \/ ReturnTested

SpecSpeedTest == TestInit /\ [][TestNext]_vars

\* The list holds exactly one result for each submitted channel.
OneResultEach(list) ==
  \A i \in DOMAIN t_submitted :
    Cardinality({ k \in DOMAIN list :
                    <<list[k].name, list[k].url>> = t_submitted[i] }) = 1

\* C15 as stated: the list the speed test returns holds exactly one result
\* for each submitted channel, and each channel was measured once and its
\* speed assigned at most once.
C15_ReturnedOnePerSource ==
  t_pc = "returned" =>
    /\ Len(t_returned) = Len(t_submitted)
    /\ OneResultEach(t_returned)
    /\ \A i \in DOMAIN t_submitted :
         t_count[i].measured = 1 /\ t_count[i].assigned <= 1

\* C15 amended: the list of results collected from the futures, before any
\* filter on the speed, holds exactly one result for each submitted channel,
\* and each channel was measured once and its speed assigned at most once.
C15_TestedOnePerSource ==
  t_pc = "returned" =>
    /\ Len(tested) = Len(t_submitted)
    /\ OneResultEach(tested)
    /\ \A i \in DOMAIN t_submitted :
         t_count[i].measured = 1 /\ t_count[i].assigned <= 1

\* C15 witness: the speed test returned after a measurement that failed and
\* one that succeeded.
C15_Witness ==
  /\ t_pc = "returned"
  /\ \E k, l \in DOMAIN tested : tested[k].speed = 0 /\ tested[l].speed > 0

(***************************************************************************)
(* The directory listers of src/all-z-j-new.py: fetch_channel_data (Kind   *)
(* A, lines 275-287), fetch_channels of get_channels_newnew (Kind B, lines *)
(* 333-352) and of get_channels_hgxtv (Kind C, lines 402-426), and the     *)
(* Kind B lister fetch_json of src/newCSV.py (lines 183-205).              *)
(*                                                                         *)
(* A URL is a sequence of tokens: "http" ":" "/" "/" host ":" port, then   *)
(* "/" and a name for each step of the path; "," is a token of its own.    *)
(* A pair of the output also records the item of the response it was made  *)
(* from.                                                                   *)
(***************************************************************************)
\* The live directory URLs, as urlparse reads them (lines 336, 414).
LiveHosts ==
  << [scheme |-> "http", hostname |-> "192.168.1.5", port |-> "8080"],
     [scheme |-> "http", hostname |-> "192.168.1.9", port |-> "8080"] >>

\* The text scheme://hostname:port of a live URL.
HostText(live) ==
  <<live.scheme, ":", "/", "/", live.hostname, ":", live.port>>

\* 'http' in urlx (line 347, newCSV.py line 199) and ',' in urlx (line 345,
\* newCSV.py line 197).
HasHttp(text) == \E i \in DOMAIN text : text[i] \in { "http", "https" }

HasComma(text) == \E i \in DOMAIN text : text[i] = ","

ListPair(name_, url, item) == [name |-> name_, url |-> url, item |-> item]

\* Kind A, lines 278-284: one pair for each item with a name and a key; an
\* item that is not a dict, or a response that is not a JSON array, raises
\* inside the try and the except clause returns [].
fetch_channel_data(live, resp) ==
  IF resp.shape # "list" \/ \E i \in DOMAIN resp.items : resp.items[i].form # "entry"
    THEN <<>>
  ELSE LET keep == { i \in DOMAIN resp.items :
                       resp.items[i].named /\ resp.items[i].url # <<>> }
       IN  Pick([i \in DOMAIN resp.items |->
                   ListPair(channel_name_normalize(resp.items[i].name),
                            HostText(live) \o <<"/", "hls", "/">> \o resp.items[i].url
                              \o <<"/", "index.m3u8">>, i)], keep)

\* Kind B, lines 336-352: base_url is scheme://hostname; an item that is not
\* a dict, has no url or a url with a comma is passed over; a kept item
\* without a name raises in channel_name_normalize, and so does a response
\* that is not a JSON object: the except clause returns [].
fetch_channels_newnew(live, resp) ==
  LET keep == { i \in DOMAIN resp.items :
                  /\ resp.items[i].form = "entry"
                  /\ resp.items[i].url # <<>>
                  /\ ~HasComma(resp.items[i].url) }
      base_url == <<live.scheme, ":", "/", "/", live.hostname>>
  IN  IF resp.shape # "object" \/ \E i \in keep : ~resp.items[i].named
        THEN <<>>
      ELSE Pick([i \in DOMAIN resp.items |->
                   ListPair(channel_name_normalize(resp.items[i].name),
                            IF HasHttp(resp.items[i].url) THEN resp.items[i].url
                            ELSE base_url \o resp.items[i].url, i)], keep)

\* newCSV.py lines 186-203: url_x is scheme://host:port; a url with a comma is
\* replaced by "aaaaaaaa" and the item is kept.  replace_with_cdn (lines
\* 101-104) changes http://original-server.com only, which no url here has.
fetch_json(live, resp) ==
  LET urlx(i) == IF HasComma(resp.items[i].url) THEN <<"aaaaaaaa">>
                 ELSE resp.items[i].url
      keep == { i \in DOMAIN resp.items :
                  /\ resp.items[i].form = "entry"
                  /\ resp.items[i].named /\ resp.items[i].name # <<>>
                  /\ resp.items[i].url # <<>> }
  IN  IF resp.shape # "object" THEN <<>>
      ELSE Pick([i \in DOMAIN resp.items |->
                   ListPair(channel_name_normalize(resp.items[i].name),
                            IF HasHttp(urlx(i)) THEN urlx(i)
                            ELSE HostText(live) \o urlx(i), i)], keep)

\* channel_url.split('/', 3), line 415: the text before the first "/", between
\* the first three, and all that follows the third.
SplitSlash3(text) ==
  LET slashes == { i \in DOMAIN text : text[i] = "/" }
      cut == { i \in slashes : Cardinality({ j \in slashes : j < i }) < 3 }
      ends == Pick([i \in DOMAIN text |-> i], cut) \o <<Len(text) + 1>>
  IN  [k \in DOMAIN ends |->
         SubSeq(text, IF k = 1 THEN 1 ELSE ends[k - 1] + 1,
                IF k = Len(ends) THEN Len(text) ELSE ends[k] - 1)]

\* Lines 414-419: the listed url with the hostname of the live URL in the
\* place of its host.
RewriteHost(live, channel_url) ==
  LET url_parts == SplitSlash3(channel_url)
  IN  IF Len(url_parts) >= 4
        THEN url_parts[1] \o <<"/", "/", live.hostname, "/">> \o url_parts[4]
        ELSE url_parts[1] \o <<"/", "/", live.hostname>>

\* Kind C, lines 406-423: a line that does not split into exactly two fields
\* raises inside the inner try and is passed over; a response that cannot be
\* fetched gives [].
fetch_channels_hgxtv(live, resp) ==
  IF resp.shape = "error" THEN <<>>
  ELSE Pick([i \in DOMAIN resp.items |->
               ListPair(channel_name_normalize(resp.items[i].name),
                        RewriteHost(live, resp.items[i].url), i)],
            { i \in DOMAIN resp.items : resp.items[i].form = "entry" })

\* The task of one live host.
ListHost(kind, live, resp) ==
  CASE kind = "A" -> fetch_channel_data(live, resp)
    [] kind = "B" -> fetch_channels_newnew(live, resp)
    [] kind = "C" -> fetch_channels_hgxtv(live, resp)
    [] kind = "B_newCSV" -> fetch_json(live, resp)

\* newCSV.py lines 205-206 catch ClientError, TimeoutError and ValueError
\* only: a response that is not a JSON object (AttributeError) and an item
\* without a url (TypeError at line 197) raise out of fetch_json.
RaisesOut(kind, resp) ==
  /\ kind = "B_newCSV"
  /\ \/ resp.shape = "list"
     \/ /\ resp.shape = "object"
        /\ \E i \in DOMAIN resp.items :
             resp.items[i].form = "entry" /\ resp.items[i].url = <<>>

\* ---- the inputs ----
MaxItems == 2

ListItem(form, named, name_, url) ==
  [form |-> form, named |-> named, name |-> name_, url |-> url]

\* A stream url with a host of its own, a path, a path with a comma, no url.
ListedUrls ==
  { <<"http", ":", "/", "/", "10.0.0.1", ":", "8080", "/", "hls", "/", "1.m3u8">>,
    <<"/", "hls", "/", "1.m3u8">>,
    <<"/", "hls", "/", "1", ",", "2.m3u8">>,
    <<>> }

\* The items of a response: entries (a dict of Kind A and B, a line
\* "name,url" of Kind C) with or without a name, and one thing that is not
\* an entry.  A line of Kind C has a name and a url without a comma.
ListItems(kind) ==
  IF kind = "C"
    THEN { ListItem("entry", TRUE, CCTV1, u) : u \in { v \in ListedUrls : ~HasComma(v) } }
           \cup { ListItem("other", FALSE, <<>>, <<>>) }
    ELSE { ListItem("entry", TRUE, CCTV1, u) : u \in ListedUrls }
           \cup { ListItem("entry", FALSE, <<>>, <<"/", "hls", "/", "1.m3u8">>),
                  ListItem("other", FALSE, <<>>, <<>>) }

ListResponses(kind, n) ==
  [shape : { "error", "list", "object" }, items : SeqsUpTo(ListItems(kind), n)]

ListInit ==
  /\ ls_pc = "listing"
  /\ ls_kind \in { "A", "B", "C", "B_newCSV" }
  /\ \E first \in ListResponses(ls_kind, MaxItems), second \in ListResponses(ls_kind, 1) :
       /\ first.shape = "error" => first.items = <<>>
       /\ second.shape = "error" => second.items = <<>>
       /\ ls_response = <<first, second>>
  /\ ls_result = [h \in 1..2 |-> [done |-> FALSE, pairs |-> <<>>]]
  /\ ls_channels = <<>>
  /\ NormIdle
  /\ AllzjIdle
  /\ DiscIdle
  /\ ProbeIdle
  /\ LoadIdle
  /\ ValIdle
  /\ MeasIdle
  /\ TestIdle
  /\ ClassIdle
  /\ ExportIdle
  /\ SortIdle
  /\ UdpxyIdle
  /\ CsvIdle
  /\ DlIdle
  /\ FetchIdle

\* C19 mutant: the task of a host whose response is not in the expected shape
\* raises out of the lister.
FetchHostUncaught(h) ==
  /\ ls_pc = "listing"
  /\ ~ls_result[h].done
  /\ IF ListHost(ls_kind, LiveHosts[h], ls_response[h]) = <<>>
       THEN ls_pc' = "raised" /\ UNCHANGED ls_result
       ELSE /\ ls_result' = [ls_result EXCEPT ![h] =
              [done |-> TRUE,
               pairs |-> ListHost(ls_kind, LiveHosts[h], ls_response[h])]]
            /\ UNCHANGED ls_pc
  /\ UNCHANGED <<ls_kind, ls_response, ls_channels>>
  /\ UNCHANGED <<normVars, allzjVars, discVars, probeVars, loadVars, valVars, measVars, testVars, classVars, exportVars, sortVars, udpxyVars, csvVars, dlVars, fetchVars>>

\* The task of one live host ends: it returns its pairs, or raises out of
\* the gather (newCSV.py only).
FetchHost(h) ==
  /\ ls_pc = "listing"
  /\ ~ls_result[h].done
  /\ IF RaisesOut(ls_kind, ls_response[h])
       THEN ls_pc' = "raised" /\ UNCHANGED ls_result
       ELSE /\ ls_result' = [ls_result EXCEPT ![h] =
              [done |-> TRUE,
               pairs |-> ListHost(ls_kind, LiveHosts[h], ls_response[h])]]
            /\ UNCHANGED ls_pc
  /\ UNCHANGED <<ls_kind, ls_response, ls_channels>>
  /\ UNCHANGED <<normVars, allzjVars, discVars, probeVars, loadVars, valVars, measVars, testVars, classVars, exportVars, sortVars, udpxyVars, csvVars, dlVars, fetchVars>>

\* asyncio.gather returns the lists in the order of the hosts and they are
\* joined: lines 292-297, 368-370, 431-436; newCSV.py lines 230-233.
GatherLists ==
  /\ ls_pc = "listing"
  /\ \A h \in DOMAIN ls_result : ls_result[h].done
  /\ ls_channels' = Flatten([h \in DOMAIN ls_result |-> ls_result[h].pairs])
  /\ ls_pc' = "gathered"
  /\ UNCHANGED <<ls_kind, ls_response, ls_result>>
  /\ UNCHANGED <<normVars, allzjVars, discVars, probeVars, loadVars, valVars, measVars, testVars, classVars, exportVars, sortVars, udpxyVars, csvVars, dlVars, fetchVars>>

ListNext ==
  \/ \E h \in DOMAIN ls_result : FetchHost(h)
  \/ GatherLists

SpecList == ListInit /\ [][ListNext]_vars

\* The item of the response a pair was made from.
ItemOf(h, pair) == ls_response[h].items[pair.item]

\* An entry with a name and a url without a comma.
GoodEntry(item) ==
  item.form = "entry" /\ item.named /\ item.url # <<>> /\ ~HasComma(item.url)

IsAbsolute(text) ==
  Len(text) >= 4 /\ text[1] \in { "http", "https" } /\ SubSeq(text, 2, 4) = <<":", "/", "/">>

\* C17: in a Kind B directory of all-z-j-new.py an absolute url is kept as it
\* is, and a path is put after scheme://host:port of the live directory URL.
C17_PathResolvedAgainstProbedHost ==
  (ls_pc = "gathered" /\ ls_kind = "B") =>
    \A h \in DOMAIN ls_result :
      \A k \in DOMAIN ls_result[h].pairs :
        LET pair == ls_result[h].pairs[k]
            urlx == ItemOf(h, pair).url
        IN  pair.url = IF IsAbsolute(urlx) THEN urlx
                       ELSE HostText(LiveHosts[h]) \o urlx

\* The scheme, the network address and the path of a url text.
UrlParts(text) ==
  LET from == IF IsAbsolute(text) THEN 5
              ELSE IF Len(text) >= 2 /\ SubSeq(text, 1, 2) = <<"/", "/">> THEN 3
              ELSE 0
      slash == { i \in from..Len(text) : text[i] = "/" }
      stop == IF slash = {} THEN Len(text) + 1
              ELSE CHOOSE i \in slash : \A j \in slash : i <= j
  IN  IF from = 0 THEN [scheme |-> "", address |-> <<>>, path |-> text]
      ELSE [scheme |-> IF from = 5 THEN text[1] ELSE "",
            address |-> SubSeq(text, from, stop - 1),
            path |-> SubSeq(text, stop, Len(text))]

\* C18, the address: every output url of a Kind C directory has the network
\* address of the live URL, host and port.
C18_ProbedAddress ==
  (ls_pc = "gathered" /\ ls_kind = "C") =>
    \A h \in DOMAIN ls_result :
      \A k \in DOMAIN ls_result[h].pairs :
        UrlParts(ls_result[h].pairs[k].url).address =
          <<LiveHosts[h].hostname, ":", LiveHosts[h].port>>

\* C18, the rest: every output url of a Kind C directory keeps the scheme and
\* the path of the listed url.
C18_SchemeAndPathKept ==
  (ls_pc = "gathered" /\ ls_kind = "C") =>
    \A h \in DOMAIN ls_result :
      \A k \in DOMAIN ls_result[h].pairs :
        LET out == UrlParts(ls_result[h].pairs[k].url)
            listed == UrlParts(ItemOf(h, ls_result[h].pairs[k]).url)
        IN  out.scheme = listed.scheme /\ out.path = listed.path

\* C18: in a Kind C directory every output url has the network address of
\* the probed host in the place of the listed host, and the scheme and the
\* path of the listed url.
C18_RewrittenToProbedHost == C18_ProbedAddress /\ C18_SchemeAndPathKept

\* A response that did not arrive or is not in the shape the kind expects.
WrongShape(kind, resp) ==
  \/ resp.shape = "error"
  \/ kind = "A" /\ resp.shape # "list"
  \/ kind = "B" /\ resp.shape # "object"

\* An item that is not a dict, or a line that is not exactly name,url.
HasOtherItem(resp) == \E i \in DOMAIN resp.items : resp.items[i].form = "other"

\* Every host's list is the list its own response gives, and the output is
\* these lists joined.
OtherHostsUnaffected ==
  /\ \A h \in DOMAIN ls_result :
       ls_result[h].done =>
         ls_result[h].pairs = ListHost(ls_kind, LiveHosts[h], ls_response[h])
  /\ ls_pc = "gathered" =>
       ls_channels = Flatten([h \in DOMAIN ls_result |->
                                ListHost(ls_kind, LiveHosts[h], ls_response[h])])

Jilin == <<"u5409", "u6797">>

\* mobileunicast/unicast.py lines 96-118, unicast.py lines 111-120 (locals,
\* hkmotw, wei_shi, citys): Hebei and Jilin; Fenghuang; Weishi; Changchun
\* and Jilin.
LOCAL_KEYWORDS == << <<"u6CB3", "u5317">>, Jilin >>

HKMOTW_KEYWORDS == << <<"u51E4", "u51F0">> >>

WEISHI_KEYWORDS == << <<"u536B", "u89C6">> >>

CITY_KEYWORDS == << <<"u957F", "u6625">>, Jilin >>

\* any(kw in name for kw in keywords).
AnyKeywordIn(keywords, text) ==
  \E k \in DOMAIN keywords : Contains(text, keywords[k])

\* name.startswith(prefix).
StartsWith(text, prefix) ==
  Len(text) >= Len(prefix) /\ SubSeq(text, 1, Len(prefix)) = prefix

\* str.upper on the letters used here (re.IGNORECASE, unicast.py line 600).
UpperCase(text) ==
  [i \in DOMAIN text |->
     CASE text[i] = "c" -> "C" [] text[i] = "g" -> "G"
       [] text[i] = "t" -> "T" [] text[i] = "n" -> "N"
       [] text[i] = "v" -> "V"
       [] OTHER -> text[i]]

\* The first rule: name.startswith("CCTV") or name.startswith("CGTN")
\* (mobileunicast line 578); re.match(r'^CCTV\d+', name) or
\* re.match(r'^CGTN', name, re.IGNORECASE) (unicast.py line 600).
IsCCTV(impl, text) ==
  IF impl = "mobileunicast"
    THEN StartsWith(text, <<"C", "C", "T", "V">>) \/ StartsWith(text, <<"C", "G", "T", "N">>)
    ELSE \/ /\ StartsWith(text, <<"C", "C", "T", "V">>)
            /\ Len(text) >= 5
            /\ text[5] \in { "0", "1", "2", "3", "4", "5", "6", "7", "8", "9" }
         \/ StartsWith(UpperCase(text), <<"C", "G", "T", "N">>)

\* mobileunicast/unicast.py lines 578-589.
group_of(text) ==
  IF IsCCTV("mobileunicast", text) THEN "CCTV"
  ELSE IF AnyKeywordIn(HKMOTW_KEYWORDS, text) THEN "HKMOTW"
  ELSE IF AnyKeywordIn(WEISHI_KEYWORDS, text) THEN "WEI_SHI"
  ELSE IF AnyKeywordIn(LOCAL_KEYWORDS, text) THEN "LOCAL"
  ELSE IF AnyKeywordIn(CITY_KEYWORDS, text) THEN "CITY"
  ELSE "OTHER"

\* unicast.py lines 597-625: the city keywords are tried before the
\* provincial ones.
determine_group(text) ==
  IF IsCCTV("unicast", text) THEN "CCTV"
  ELSE IF AnyKeywordIn(HKMOTW_KEYWORDS, text) THEN "HKMOTW"
  ELSE IF AnyKeywordIn(WEISHI_KEYWORDS, text) THEN "WEI_SHI"
  ELSE IF AnyKeywordIn(CITY_KEYWORDS, text) THEN "CITY"
  ELSE IF AnyKeywordIn(LOCAL_KEYWORDS, text) THEN "LOCAL"
  ELSE "OTHER"

\* ---- the inputs ----
MaxWords == 3

\* CCTV, 1, CGTN, cgtn, the keywords, and a word (xinwen) of no keyword.
NameWords ==
  { <<"C", "C", "T", "V">>, <<"1">>, <<"C", "G", "T", "N">>, <<"c", "g", "t", "n">>,
    <<"u51E4", "u51F0">>, <<"u536B", "u89C6">>, <<"u6CB3", "u5317">>,
    <<"u957F", "u6625">>, Jilin, <<"u65B0", "u95FB">> }

ClassInit ==
  /\ g_pc = "named"
  /\ g_impl \in { "mobileunicast", "unicast" }
  /\ g_name \in { Flatten(ws) : ws \in SeqsUpTo(NameWords, MaxWords) }
  /\ g_group = "none"
  /\ NormIdle
  /\ AllzjIdle
  /\ DiscIdle
  /\ ProbeIdle
  /\ LoadIdle
  /\ ValIdle
  /\ MeasIdle
  /\ TestIdle
  /\ ListIdle
  /\ ExportIdle
  /\ SortIdle
  /\ UdpxyIdle
  /\ CsvIdle
  /\ DlIdle
  /\ FetchIdle

\* The name is put in its group.
DetermineGroup ==
  /\ g_pc = "named"
  /\ g_group' = IF g_impl = "mobileunicast" THEN group_of(g_name)
                ELSE determine_group(g_name)
  /\ g_pc' = "grouped"
  /\ UNCHANGED <<g_impl, g_name>>
  /\ UNCHANGED <<normVars, allzjVars, discVars, probeVars, loadVars, valVars, measVars, testVars, listVars, exportVars, sortVars, udpxyVars, csvVars, dlVars, fetchVars>>

ClassNext == DetermineGroup

SpecClassify == ClassInit /\ [][ClassNext]_vars

\* The rules in the order stated: the group of the first that matches.
FirstMatch(impl, text) ==
  IF IsCCTV(impl, text) THEN "CCTV"
  ELSE IF AnyKeywordIn(HKMOTW_KEYWORDS, text) THEN "HKMOTW"
  ELSE IF AnyKeywordIn(WEISHI_KEYWORDS, text) THEN "WEI_SHI"
  ELSE IF AnyKeywordIn(LOCAL_KEYWORDS, text) THEN "LOCAL"
  ELSE IF AnyKeywordIn(CITY_KEYWORDS, text) THEN "CITY"
  ELSE "OTHER"

\* C20: every name gets one group, that of the first rule it matches in the
\* order CCTV pattern, Hong Kong/Macau/Taiwan keywords, satellite keyword,
\* provincial keywords, municipal keywords, other; so a name with a keyword
\* that is both provincial and municipal, and no earlier match, is
\* provincial.
C20_FirstMatchWins ==
  g_pc = "grouped" =>
    /\ g_group \in { "CCTV", "HKMOTW", "WEI_SHI", "LOCAL", "CITY", "OTHER" }
    /\ g_group = FirstMatch(g_impl, g_name)

(***************************************************************************)
(* Grouping, the TXT export and the reader of TXT files.                   *)
(*   src/mobileunicast/unicast.py: _parse_single_file (335-355),           *)
(*     _normalize_channel_name (357-367), _group_and_filter_channels       *)
(*     (545-591), _generate_output_files (604-612)                         *)
(*   src/unicast.py: _parse_content (301-329), group_channels (551-595),   *)
(*     generate_output_files (649-671)                                     *)
(*   src/all-z-j-new.py: lines 576-596 and write_to_file (598-634)         *)
(*                                                                         *)
(* A line of the file is a text: the characters of a name, then "," and    *)
(* the tokens of a url, or a header.  "#genre#", "#region#" and            *)
(* "#language#" are one token each, "#" alone is a token.                  *)
(***************************************************************************)
Digits == { "0", "1", "2", "3", "4", "5", "6", "7", "8", "9" }

\* The characters of the names here that \w matches.
WordChars == Digits \cup { "C", "T", "V", "u51E4", "u51F0" }

\* re.sub(word + '-(\d+)' or '-(\w+)', word + '\1', name, flags=re.IGNORECASE),
\* lines 360 and 362: the "-" between word and a run of such characters goes,
\* and word is written in capitals.
RECURSIVE SubDash(_, _, _)
SubDash(text, word, class) ==
  LET w == Len(word)
      run == { k \in 1..(Len(text) - w - 1) :
                 \A j \in 1..k : text[w + 1 + j] \in class }
      last == w + 1 + Cardinality(run)
  IN  IF Len(text) < w + 2 THEN text
      ELSE IF UpperCase(SubSeq(text, 1, w)) = word /\ text[w + 1] = "-" /\ run # {}
        THEN word \o SubSeq(text, w + 2, last) \o SubDash(SubSeq(text, last + 1, Len(text)), word, class)
      ELSE <<Head(text)>> \o SubDash(Tail(text), word, class)

\* _normalize_channel_name, mobileunicast lines 357-367, unicast.py 331-344.
normalize_channel_name(text) ==
  LET joined == SubDash(SubDash(text, <<"C", "C", "T", "V">>, Digits),
                        <<"C", "G", "T", "N">>, WordChars)
      isCCTV == StartsWith(UpperCase(joined), <<"C", "C", "T", "V">>)
      isCCTV5plus == StartsWith(UpperCase(joined), <<"C", "C", "T", "V", "5", "+">>)
  IN  IF isCCTV /\ ~isCCTV5plus
        THEN Filter(joined, LAMBDA c : c \notin { "+", "-", " ", "*" })
      ELSE joined

\* The groups of the result dict, in the order of their insertion
\* (mobileunicast lines 567-574, unicast.py 571-578).
GroupOrder == <<"CCTV", "WEI_SHI", "LOCAL", "HKMOTW", "CITY", "OTHER">>

SourceName(c) == c.name

SpeedKey(c) == c.speed

NameSpeedKey(c) == <<c.name, c.speed>>

\* (x.name, -x.speed): by name, then by falling speed (unicast.py line 592).
NameSpeedBefore(x, y) ==
  IF x[1] # y[1] THEN StrLess(x[1], y[1]) ELSE x[2] > y[2]

\* The sources kept of each name, by falling speed, at most top of them:
\* sorted(group, key=lambda x: x.speed, reverse=True)[:top] (mobileunicast
\* lines 556-564, unicast.py 562-568); names in the order of the dict.
KeepTop(sources, top) ==
  LET names == KeysInOrder(sources, SourceName)
      kept(n) == LET sorted_group == StableSort(Filter(sources, LAMBDA c : c.name = n),
                                                SpeedKey, Descending)
                 IN  SubSeq(sorted_group, 1, Min2(top, Len(sorted_group)))
  IN  Flatten([k \in DOMAIN names |-> kept(names[k])])

\* The result list: the groups of the dict one after the other.
\* mobileunicast lines 576-591; unicast.py lines 581-595, which sorts each
\* group by (name, -speed); all-z-j-new.py lines 579-596.
GroupedCatalog(impl, sources, top) ==
  LET kept == KeepTop(sources, top)
      InGroup(g) == Filter(kept, LAMBDA c : c.group = g)
  IN  CASE impl = "allzj" -> sort_channels(SelectBest(sources))
        [] impl = "mobileunicast" ->
             Flatten([g \in DOMAIN GroupOrder |-> InGroup(GroupOrder[g])])
        [] impl = "unicast" ->
             Flatten([g \in DOMAIN GroupOrder |->
                        StableSort(InGroup(GroupOrder[g]), NameSpeedKey, NameSpeedBefore)])

\* f"{channel.name},{channel.url}\n"
PairLine(c) == c.name \o <<",">> \o c.url

\* mobileunicast lines 606-612: a header, the sources and an empty line for
\* each group that is not empty.
TxtOfMobileunicast(catalog) ==
  LET GroupLines(g) ==
        LET channels_ == Filter(catalog, LAMBDA c : c.group = g)
        IN  IF channels_ = <<>> THEN <<>>
            ELSE << <<g, ",", "#genre#">> >>
                   \o [k \in DOMAIN channels_ |-> PairLine(channels_[k])] \o << <<>> >>
  IN  Flatten([g \in DOMAIN GroupOrder |-> GroupLines(GroupOrder[g])])

\* unicast.py lines 652-671: three comment lines, then for each group that
\* is not empty a comment line and the first source of each channel name.
TxtOfUnicast(catalog) ==
  LET GroupLines(g) ==
        LET channels_ == Filter(catalog, LAMBDA c : c.group = g)
            first == { k \in DOMAIN channels_ :
                         \A j \in 1..(k - 1) : channels_[j].name # channels_[k].name }
        IN  IF channels_ = <<>> THEN <<>>
            ELSE << <<"#", " ", g>> >>
                   \o Pick([k \in DOMAIN channels_ |-> PairLine(channels_[k])], first)
                   \o << <<>> >>
  IN  << <<"#", " ", "title">>, <<"#", " ", "time">>, <<"#", " ", "count">>, <<>> >>
        \o Flatten([g \in DOMAIN GroupOrder |-> GroupLines(GroupOrder[g])])

\* sorted(list(set(...))), lines 614, 620, 626.
SortedSet(S) ==
  LET all == CHOOSE q \in [1..Cardinality(S) -> S] : \A x \in S : \E i \in DOMAIN q : q[i] = x
  IN  StableSort(all, LAMBDA x : x, StrLess)

\* write_to_file, lines 598-609: the sources of the genre, at most 8 of a name.
write_to_file(results, genre) ==
  LET of_genre == { k \in DOMAIN results :
                      /\ get_channel_category(results[k].name) = genre
                      /\ Cardinality({ j \in 1..(k - 1) :
                            /\ get_channel_category(results[j].name) = genre
                            /\ results[j].name = results[k].name }) < 8 }
  IN  Pick([k \in DOMAIN results |-> PairLine(results[k])], of_genre)

\* all-z-j-new.py lines 612-634: regions, languages and categories in sorted
\* order, a header for each, then the header of the default category and
\* its sources out of the whole list.
TxtOfAllzj(results) ==
  LET other == <<"u5176", "u4ED6", "u9891", "u9053">>
      regions == SortedSet({ get_channel_region(results[k].name) : k \in DOMAIN results })
      RegionLines(region) ==
        LET region_channels == Filter(results, LAMBDA r : get_channel_region(r.name) = region)
            languages == SortedSet({ get_channel_language(region_channels[k].name) :
                                       k \in DOMAIN region_channels })
            LanguageLines(language) ==
              LET lang_channels == Filter(region_channels,
                                          LAMBDA r : get_channel_language(r.name) = language)
                  categories == SortedSet({ get_channel_category(lang_channels[k].name) :
                                              k \in DOMAIN lang_channels })
              IN  << language \o <<",", "#language#">> >>
                    \o Flatten([c \in DOMAIN categories |->
                         << categories[c] \o <<",", "#genre#">> >>
                           \o write_to_file(lang_channels, categories[c])])
        IN  << region \o <<",", "#region#">> >>
              \o Flatten([l \in DOMAIN languages |-> LanguageLines(languages[l])])
  IN  Flatten([r \in DOMAIN regions |-> RegionLines(regions[r])])
        \o << other \o <<",", "#genre#">> >> \o write_to_file(results, other)

\* str.strip on a line or a field.
RECURSIVE Strip(_)
Strip(text) ==
  IF text = <<>> THEN text
  ELSE IF Head(text) = " " THEN Strip(Tail(text))
  ELSE IF text[Len(text)] = " " THEN Strip(SubSeq(text, 1, Len(text) - 1))
  ELSE text

\* url_part.split("#").
RECURSIVE SplitHash(_)
SplitHash(text) ==
  LET hashes == { i \in DOMAIN text : text[i] = "#" }
      h == CHOOSE i \in hashes : \A j \in hashes : i <= j
  IN  IF hashes = {} THEN <<text>>
      ELSE <<SubSeq(text, 1, h - 1)>> \o SplitHash(SubSeq(text, h + 1, Len(text)))

\* The pairs of one line: mobileunicast lines 340-353, unicast.py 306-327.
ParseLine(line0) ==
  LET line == Strip(line0)
      commas == { i \in DOMAIN line : line[i] = "," }
      c == CHOOSE i \in commas : \A j \in commas : i <= j
      name_ == normalize_channel_name(Strip(SubSeq(line, 1, c - 1)))
      pieces == SplitHash(SubSeq(line, c + 1, Len(line)))
      http_urls == Filter([k \in DOMAIN pieces |-> Strip(pieces[k])],
                     LAMBDA u : u # <<>> /\ u[1] \in { "http", "https" })
  IN  IF line = <<>> \/ line[Len(line)] = "#genre#" \/ commas = {} THEN <<>>
      ELSE [k \in DOMAIN http_urls |-> <<name_, http_urls[k]>>]

\* _parse_single_file, _parse_content.
parse_content(lines) == Flatten([k \in DOMAIN lines |-> ParseLine(lines[k])])

\* ---- the inputs ----
MaxExport == 2

MaxTop == 2

\* Names as source files give them: CCTV-1, CCTV-5+ and Fenghuang.  The names
\* of measured sources are outputs of the name normaliser of the pipeline.
ExportRawNames ==
  { <<"C", "C", "T", "V", "-", "1">>, <<"C", "C", "T", "V", "-", "5", "+">>,
    <<"u51E4", "u51F0">> }

\* Two urls, the second shorter than the first in tokens and in characters.
ExportUrls ==
  { <<"http", ":", "/", "/", "a", "/", "1.m3u8">>, <<"http", ":", "/", "/", "b">> }

ExportSpeeds == { 2000, 3000 }

\* A measured source: the processors give it a group when they group
\* (mobileunicast lines 576-589, unicast.py line 586).
TestedSource(impl, raw, url, speed) ==
  IF impl = "allzj" THEN ChannelResult(<<channel_name_normalize(raw), url>>, speed)
  ELSE LET name_ == normalize_channel_name(raw)
       IN  [name |-> name_, url |-> url, speed |-> speed,
            group |-> IF impl = "mobileunicast" THEN group_of(name_)
                      ELSE determine_group(name_)]

ExportInit ==
  /\ x_pc = "tested"
  /\ x_impl \in { "allzj", "mobileunicast", "unicast" }
  /\ x_top \in IF x_impl = "allzj" THEN { TopSources } ELSE 1..MaxTop
  /\ x_tested \in
       { s \in SeqsUpTo({ TestedSource(x_impl, n, u, v) :
                            n \in ExportRawNames, u \in ExportUrls, v \in ExportSpeeds },
                        MaxExport) :
           \A i, j \in DOMAIN s :
             i # j => <<s[i].name, s[i].url>> # <<s[j].name, s[j].url>> }
  /\ x_catalog = <<>>
  /\ x_file = <<>>
  /\ x_parsed = <<>>
  /\ NormIdle
  /\ AllzjIdle
  /\ DiscIdle
  /\ ProbeIdle
  /\ LoadIdle
  /\ ValIdle
  /\ MeasIdle
  /\ TestIdle
  /\ ListIdle
  /\ ClassIdle
  /\ SortIdle
  /\ UdpxyIdle
  /\ CsvIdle
  /\ DlIdle
  /\ FetchIdle

\* The sources are grouped, cut to the top of each name and ordered.
GroupChannels ==
  /\ x_pc = "tested"
  /\ x_catalog' = GroupedCatalog(x_impl, x_tested, x_top)
  /\ x_pc' = "grouped"
  /\ UNCHANGED <<x_impl, x_top, x_tested, x_file, x_parsed>>
  /\ UNCHANGED <<normVars, allzjVars, discVars, probeVars, loadVars, valVars, measVars, testVars, listVars, classVars, sortVars, udpxyVars, csvVars, dlVars, fetchVars>>

\* The TXT file is written.
WriteTxt ==
  /\ x_pc = "grouped"
  /\ x_file' = CASE x_impl = "allzj" -> TxtOfAllzj(x_catalog)
                 [] x_impl = "mobileunicast" -> TxtOfMobileunicast(x_catalog)
                 [] x_impl = "unicast" -> TxtOfUnicast(x_catalog)
  /\ x_pc' = "written"
  /\ UNCHANGED <<x_impl, x_top, x_tested, x_catalog, x_parsed>>
  /\ UNCHANGED <<normVars, allzjVars, discVars, probeVars, loadVars, valVars, measVars, testVars, listVars, classVars, sortVars, udpxyVars, csvVars, dlVars, fetchVars>>

\* The file is read back by the reader of the processor that wrote it.
ParseTxt ==
  /\ x_pc = "written"
  /\ x_impl # "allzj"
  /\ x_parsed' = parse_content(x_file)
  /\ x_pc' = "parsed"
  /\ UNCHANGED <<x_impl, x_top, x_tested, x_catalog, x_file>>
  /\ UNCHANGED <<normVars, allzjVars, discVars, probeVars, loadVars, valVars, measVars, testVars, listVars, classVars, sortVars, udpxyVars, csvVars, dlVars, fetchVars>>

ExportNext == GroupChannels \/ WriteTxt \/ ParseTxt

SpecExport == ExportInit /\ [][ExportNext]_vars

\* How often x is an element of the sequence s.
Count(s, x) == Cardinality({ i \in DOMAIN s : s[i] = x })

\* C21: the pairs the reader finds in the written TXT file are the (name, url)
\* pairs of the catalog, each as often as in the catalog: none lost,
\* duplicated or renamed, and none made from a header line.
C21_RoundTrip ==
  x_pc = "parsed" =>
    LET pairs == [k \in DOMAIN x_catalog |-> <<x_catalog[k].name, x_catalog[k].url>>]
    IN  \A p \in Range(pairs) \cup Range(x_parsed) : Count(x_parsed, p) = Count(pairs, p)

\* len(url): the number of characters of a url.
UrlLength(url) ==
  LET chars(tok) == CASE tok = "http" -> 4 [] tok = "https" -> 5
                      [] tok = "1.m3u8" -> 6 [] OTHER -> 1
      RECURSIVE Sum(_)
      Sum(s) == IF s = <<>> THEN 0 ELSE chars(Head(s)) + Sum(Tail(s))
  IN  Sum(url)

\* C22: in the result list of the processors, of two sources of one channel
\* with the same speed the one with the shorter url comes first, and when
\* only one of them is kept it is one with the shorter url.
C22_TieBreakByUrlLength ==
  (x_pc \in { "grouped", "written", "parsed" } /\ x_impl \in { "mobileunicast", "unicast" }) =>
    /\ \A i, j \in DOMAIN x_catalog :
         (i < j /\ x_catalog[i].name = x_catalog[j].name
                /\ x_catalog[i].speed = x_catalog[j].speed)
           => UrlLength(x_catalog[i].url) <= UrlLength(x_catalog[j].url)
    /\ \A i \in DOMAIN x_catalog : \A d \in Range(x_tested) \ Range(x_catalog) :
         (x_catalog[i].name = d.name /\ x_catalog[i].speed = d.speed)
           => UrlLength(x_catalog[i].url) <= UrlLength(d.url)

\* C28: every source of the final result list is on exactly one line of the
\* TXT file of all-z-j-new.py and of mobileunicast/unicast.py.
C28_WrittenExactlyOnce ==
  (x_pc \in { "written", "parsed" } /\ x_impl \in { "allzj", "mobileunicast" }) =>
    \A k \in DOMAIN x_catalog : Count(x_file, PairLine(x_catalog[k])) = 1

(***************************************************************************)
(* apply_custom_sort and sort_channels with the rules of a sort-config     *)
(* file, src/all-z-j-new.py:442-503.                                       *)
(***************************************************************************)
\* The 'speed' field, f"{download_speed:.3f} MB/s" (line 553), for the speeds
\* of SortSpeeds, which are whole numbers of MB/s below 100.
SpeedText(speed) ==
  LET units == speed \div 1000
      digit(k) == CASE k = 0 -> "0" [] k = 1 -> "1" [] k = 2 -> "2" [] k = 9 -> "9"
  IN  (IF units >= 10 THEN <<digit(units \div 10)>> ELSE <<>>)
        \o <<digit(units % 10), ".", "0", "0", "0", " ", "M", "B", "/", "s">>

\* channel[field], line 459, of the fields a rule can name here.
FieldValue(channel, field) ==
  CASE field = "category" -> get_channel_category(channel.name)
    [] field = "region" -> get_channel_region(channel.name)
    [] field = "language" -> get_channel_language(channel.name)
    [] field = "speed" -> SpeedText(channel.speed)

\* Lines 487-495: a line field,direction gives a rule when it has two parts
\* and the second is asc or desc.
SortRules(lines) ==
  LET rule == { k \in DOMAIN lines :
                  Len(lines[k]) = 3 /\ lines[k][2] = "," /\ lines[k][3] \in { "asc", "desc" } }
  IN  Pick([k \in DOMAIN lines |-> <<lines[k][1], lines[k][3]>>], rule)

\* Line 471: -value is computed for a desc rule; the value of every field
\* but category is a str, and negating a str raises TypeError.
SortKeyRaises(sort_rules) ==
  \E k \in DOMAIN sort_rules : sort_rules[k][2] = "desc" /\ sort_rules[k][1] # "category"

\* sort_key, lines 456-473: one value for each rule, a number for category
\* and the str of the field for the others.
CustomSortKey(sort_rules, channel) ==
  [k \in DOMAIN sort_rules |->
     IF sort_rules[k][1] = "category"
       THEN [num |-> TRUE, s |-> <<>>,
             n |-> IF sort_rules[k][2] = "asc"
                     THEN CategoryOrder(FieldValue(channel, "category"))
                     ELSE 0 - CategoryOrder(FieldValue(channel, "category"))]
     ELSE [num |-> FALSE, s |-> FieldValue(channel, sort_rules[k][1]), n |-> 0]]

\* Python's < on two such tuples.
RECURSIVE TupleBefore(_, _)
TupleBefore(x, y) ==
  IF x = <<>> \/ y = <<>> THEN x = <<>> /\ y # <<>>
  ELSE IF Head(x) = Head(y) THEN TupleBefore(Tail(x), Tail(y))
  ELSE IF Head(x).num THEN Head(x).n < Head(y).n
  ELSE StrLess(Head(x).s, Head(y).s)

\* apply_custom_sort, lines 478-503: the list sorted by the rules; the list
\* as it came when there is no rule or when the sort raises (the except
\* clause of line 500 logs and falls through to return channels).
apply_custom_sort(chs, lines) ==
  LET sort_rules == SortRules(lines)
  IN  IF sort_rules = <<>> \/ (chs # <<>> /\ SortKeyRaises(sort_rules)) THEN chs
      ELSE StableSort(chs, LAMBDA c : CustomSortKey(sort_rules, c), TupleBefore)

\* ---- the inputs ----
MaxRules == 2

MaxSorted == 2

SortFields == { "category", "region", "language", "speed" }

ConfigLines == { <<f, ",", dir>> : f \in SortFields, dir \in { "asc", "desc" } }

\* 2, 9 and 12 MB/s.
SortSpeeds == { 2000, 9000, 12000 }

\* Results of two names that differ in category, region and language.
SortResults ==
  { ChannelResult(<<n, "url_a">>, v) : n \in { CCTV1, <<"u51E4", "u51F0">> }, v \in SortSpeeds }

SortInit ==
  /\ s_pc = "loaded"
  /\ s_config \in SeqsUpTo(ConfigLines, MaxRules)
  /\ s_channels \in SeqsUpTo(SortResults, MaxSorted)
  /\ s_result = <<>>
  /\ NormIdle
  /\ AllzjIdle
  /\ DiscIdle
  /\ ProbeIdle
  /\ LoadIdle
  /\ ValIdle
  /\ MeasIdle
  /\ TestIdle
  /\ ListIdle
  /\ ClassIdle
  /\ ExportIdle
  /\ UdpxyIdle
  /\ CsvIdle
  /\ DlIdle
  /\ FetchIdle

\* Line 593: optimized_results = apply_custom_sort(optimized_results, sort_config).
ApplyCustomSort ==
  /\ s_pc = "loaded"
  /\ s_result' = apply_custom_sort(s_channels, s_config)
  /\ s_pc' = "sorted"
  /\ UNCHANGED <<s_config, s_channels>>
  /\ UNCHANGED <<normVars, allzjVars, discVars, probeVars, loadVars, valVars, measVars, testVars, listVars, classVars, exportVars, udpxyVars, csvVars, dlVars, fetchVars>>

SortNext == ApplyCustomSort

SpecSort == SortInit /\ [][SortNext]_vars

\* The order the rules ask for: a comes strictly before b when, at the first
\* rule whose field differs between them, a has the smaller value (asc) or
\* the greater value (desc).  Speeds are ordered as numbers, categories by
\* their place in CHANNEL_CATEGORIES, regions and languages as strings.
RECURSIVE RulesBefore(_, _, _)
RulesBefore(a, b, sort_rules) ==
  IF sort_rules = <<>> THEN FALSE
  ELSE LET field == Head(sort_rules)[1]
           less(x, y) ==
             CASE field = "speed" -> x.speed < y.speed
               [] field = "category" ->
                    CategoryOrder(FieldValue(x, field)) < CategoryOrder(FieldValue(y, field))
               [] OTHER -> StrLess(FieldValue(x, field), FieldValue(y, field))
       IN  IF ~less(a, b) /\ ~less(b, a) THEN RulesBefore(a, b, Tail(sort_rules))
           ELSE IF Head(sort_rules)[2] = "asc" THEN less(a, b) ELSE less(b, a)

\* C23: apply_custom_sort returns the results it was given, each as often,
\* in the order of the rules of the config: no result comes after one that
\* the rules put strictly behind it.
C23_SortedByRules ==
  s_pc = "sorted" =>
    /\ \A r \in Range(s_channels) \cup Range(s_result) :
         Count(s_result, r) = Count(s_channels, r)
    /\ \A i, j \in DOMAIN s_result :
         i < j => ~RulesBefore(s_result[j], s_result[i], SortRules(s_config))

\* The (name, url) pairs of the results, in order.
ResultPairs == [k \in DOMAIN channel_results |-> <<channel_results[k].name, channel_results[k].url>>]

\* C30: every input channel whose test has finished is recorded once, in
\* channel_results or in error_channels: at each moment the two lists hold
\* together as many entries as tests have finished, and each (name, url)
\* pair as often as finished tests had it; so when all have finished the
\* lengths add up to the number of input channels.
C30_RecordedExactlyOnce ==
  a_pc \in { "testing", "ranked" } =>
    LET finished == Pick(channels, DOMAIN channels \ a_pending)
    IN  /\ Len(channel_results) + Len(error_channels) = Len(finished)
        /\ \A p \in Range(channels) \cup Range(ResultPairs) \cup Range(error_channels) :
             Count(ResultPairs, p) + Count(error_channels, p) = Count(finished, p)

\* C30 witness: all tests of a two-channel input have finished, one succeeded
\* and one failed.
C30_Witness ==
  /\ a_pc = "testing"
  /\ a_pending = {}
  /\ Len(channels) = 2
  /\ Len(channel_results) = 1
  /\ Len(error_channels) = 1

(***************************************************************************)
(* The two measuring batches side by side: test_speed_and_output of        *)
(* src/all-z-j-new.py (gather at line 576, selection and sort after it)    *)
(* and _test_channels_speed of the processors (the results are returned to *)
(* run, which groups them: mobileunicast lines 170-174).                   *)
(***************************************************************************)
BatchInit == AllzjInit \/ TestInit

BatchNext == AllzjNext \/ TestNext

SpecBatch == BatchInit /\ [][BatchNext]_vars

\* C24: the list is selected and sorted (all-z-j-new.py), or handed to the
\* grouping (the processors), only when no measurement of the batch is still
\* running, and then every input of the batch has its outcome: none was
\* cancelled or left out.
C24_SortAfterAllMeasured ==
  /\ a_pc = "ranked" =>
       /\ a_pending = {}
       /\ Len(channel_results) + Len(error_channels) = Len(channels)
  /\ t_pc = "returned" =>
       /\ t_pending = {}
       /\ Len(tested) = Len(t_submitted)

\* C24 witness: the processors' batch of at least two channels has returned,
\* every channel measured, one of them without success.
C24_Witness ==
  /\ t_pc = "returned"
  /\ t_impl = "mobileunicast"
  /\ Len(t_submitted) >= 2
  /\ Len(tested) = Len(t_submitted)
  /\ \E k \in DOMAIN tested : tested[k].speed = 0

(***************************************************************************)
(* UDPXYSourceMaker, src/udpxysourcemake.py: run (lines 680-697) submits   *)
(* process_multicast_file for every file to a pool of max_workers threads; *)
(* each call (lines 547-579) opens a pool of max_workers threads of its    *)
(* own and submits test_channel for the channels of its file.              *)
(***************************************************************************)
MaxWorkers == 2

MaxFiles == 2

MaxChannels == 2

UdpxyInit ==
  /\ u_max \in 1..MaxWorkers
  /\ \E files \in 1..MaxFiles :
       /\ u_file = [f \in 1..files |-> "submitted"]
       /\ \E count \in [1..files -> 1..MaxChannels] :
            u_chan = [f \in 1..files |-> [c \in 1..count[f] |-> "submitted"]]
  /\ NormIdle
  /\ AllzjIdle
  /\ DiscIdle
  /\ ProbeIdle
  /\ LoadIdle
  /\ ValIdle
  /\ MeasIdle
  /\ TestIdle
  /\ ListIdle
  /\ ClassIdle
  /\ ExportIdle
  /\ SortIdle
  /\ CsvIdle
  /\ DlIdle
  /\ FetchIdle

\* The calls of process_multicast_file and of test_channel that are running.
FilesRunning == { f \in DOMAIN u_file : u_file[f] = "processing" }

TestsRunning(f) == { c \in DOMAIN u_chan[f] : u_chan[f][c] = "testing" }

\* A thread of the pool of run takes a file (line 683: at most max_workers
\* threads) and calls process_multicast_file.
StartFile(f) ==
  /\ u_file[f] = "submitted"
  /\ Cardinality(FilesRunning) < u_max
  /\ u_file' = [u_file EXCEPT ![f] = "processing"]
  /\ UNCHANGED <<u_max, u_chan>>
  /\ UNCHANGED <<normVars, allzjVars, discVars, probeVars, loadVars, valVars, measVars, testVars, listVars, classVars, exportVars, sortVars, csvVars, dlVars, fetchVars>>

\* A thread of the pool of this file (line 567: at most max_workers threads
\* for each call) takes a channel and calls test_channel.
StartTest(f, c) ==
  /\ u_file[f] = "processing"
  /\ u_chan[f][c] = "submitted"
  /\ Cardinality(TestsRunning(f)) < u_max
  /\ u_chan' = [u_chan EXCEPT ![f][c] = "testing"]
  /\ UNCHANGED <<u_max, u_file>>
  /\ UNCHANGED <<normVars, allzjVars, discVars, probeVars, loadVars, valVars, measVars, testVars, listVars, classVars, exportVars, sortVars, csvVars, dlVars, fetchVars>>

\* test_channel returns True or False (lines 529-545).
EndTest(f, c) ==
  /\ u_chan[f][c] = "testing"
  /\ u_chan' = [u_chan EXCEPT ![f][c] = "done"]
  /\ UNCHANGED <<u_max, u_file>>
  /\ UNCHANGED <<normVars, allzjVars, discVars, probeVars, loadVars, valVars, measVars, testVars, listVars, classVars, exportVars, sortVars, csvVars, dlVars, fetchVars>>

\* All futures of the file have completed; process_multicast_file returns
\* (lines 570-579).
EndFile(f) ==
  /\ u_file[f] = "processing"
  /\ \A c \in DOMAIN u_chan[f] : u_chan[f][c] = "done"
  /\ u_file' = [u_file EXCEPT ![f] = "done"]
  /\ UNCHANGED <<u_max, u_chan>>
  /\ UNCHANGED <<normVars, allzjVars, discVars, probeVars, loadVars, valVars, measVars, testVars, listVars, classVars, exportVars, sortVars, csvVars, dlVars, fetchVars>>

UdpxyNext ==
  \/ \E f \in DOMAIN u_file : StartFile(f)
  \/ \E f \in DOMAIN u_file : \E c \in DOMAIN u_chan[f] : StartTest(f, c)
  \/ \E f \in DOMAIN u_file : \E c \in DOMAIN u_chan[f] : EndTest(f, c)
  \/ \E f \in DOMAIN u_file : EndFile(f)

SpecUdpxy == UdpxyInit /\ [][UdpxyNext]_vars

\* C25: the calls of test_channel running at the same time, each in a worker
\* thread of its own, are never more than max_workers.
C25_AtMostMaxWorkers ==
  Cardinality(UNION { { <<f, c>> : c \in TestsRunning(f) } : f \in DOMAIN u_file }) <= u_max

(***************************************************************************)
(* update_csv, src/update_csv_files.py:46-69, with save_history (23-31)    *)
(* and is_valid_csv (33-44).  A content is a sequence of lines, a line a   *)
(* text; contents are compared as Python reads them in text mode.          *)
(***************************************************************************)
\* line.strip() is empty.
IsBlankLine(line) == Strip(line) = <<>>

\* content.strip() is empty (line 64).
IsBlank(content) == \A i \in DOMAIN content : IsBlankLine(content[i])

\* is_valid_csv, lines 33-44: the lines that are not blank give a header and
\* a row to csv.reader; next() on an exhausted reader raises and the except
\* clause returns False.
is_valid_csv(content) ==
  Cardinality({ i \in DOMAIN content : ~IsBlankLine(content[i]) }) >= 2

\* The file on disk: absent, or present with a content.
NoFile == [exists |-> FALSE, content |-> <<>>]

FileOf(content) == [exists |-> TRUE, content |-> content]

\* local_content, lines 48-51: "" when the file does not exist.
local_content == k_local.content

\* ---- the inputs ----
MaxLines == 2

\* An empty line, a line of spaces, a header and a row.
CsvLines == { <<>>, <<" ">>, <<"h", "o", "s", "t">>, <<"1", ".", "1">> }

CsvContents == SeqsUpTo(CsvLines, MaxLines)

\* The seconds of the clock, and no backup.
Seconds == { 1, 2 }

NoBackup == [exists |-> FALSE, content |-> <<>>]

CsvInit ==
  /\ k_pc = "called"
  /\ k_local \in { NoFile } \cup { FileOf(c) : c \in CsvContents }
  /\ k_before = k_local
  /\ k_new = <<>>
  /\ k_time \in Seconds
  /\ k_history \in { [s \in Seconds |-> NoBackup],
                     [s \in Seconds |-> IF s = 1 THEN FileOf(<<<<"h", "o", "s", "t">>>>)
                                        ELSE NoBackup] }
  /\ NormIdle
  /\ AllzjIdle
  /\ DiscIdle
  /\ ProbeIdle
  /\ LoadIdle
  /\ ValIdle
  /\ MeasIdle
  /\ TestIdle
  /\ ListIdle
  /\ ClassIdle
  /\ ExportIdle
  /\ SortIdle
  /\ UdpxyIdle
  /\ DlIdle
  /\ FetchIdle

\* fetch_csv raises (timeout, connection error, HTTP error status): lines
\* 53-57, the call returns.
FetchFails ==
  /\ k_pc = "called"
  /\ k_pc' = "returned"
  /\ UNCHANGED <<k_local, k_before, k_new, k_time, k_history>>
  /\ UNCHANGED <<normVars, allzjVars, discVars, probeVars, loadVars, valVars, measVars, testVars, listVars, classVars, exportVars, sortVars, udpxyVars, dlVars, fetchVars>>

\* fetch_csv returns the text of the response (line 54).
FetchCsv(content) ==
  /\ k_pc = "called"
  /\ k_new' = content
  /\ k_pc' = "fetched"
  /\ UNCHANGED <<k_local, k_before, k_time, k_history>>
  /\ UNCHANGED <<normVars, allzjVars, discVars, probeVars, loadVars, valVars, measVars, testVars, listVars, classVars, exportVars, sortVars, udpxyVars, dlVars, fetchVars>>

\* Lines 58-60 and 68-69: the fetched content is not a valid CSV, or it is
\* the local content; nothing is written.
SkipUpdate ==
  /\ k_pc = "fetched"
  /\ ~is_valid_csv(k_new) \/ k_new = local_content
  /\ k_pc' = "returned"
  /\ UNCHANGED <<k_local, k_before, k_new, k_time, k_history>>
  /\ UNCHANGED <<normVars, allzjVars, discVars, probeVars, loadVars, valVars, measVars, testVars, listVars, classVars, exportVars, sortVars, udpxyVars, dlVars, fetchVars>>

\* C26 mutant: the backup is not written.
SaveHistorySkipped ==
  /\ k_pc = "fetched"
  /\ is_valid_csv(k_new) /\ k_new # local_content
  /\ k_pc' = "saved"
  /\ UNCHANGED <<k_local, k_before, k_new, k_time, k_history>>
  /\ UNCHANGED <<normVars, allzjVars, discVars, probeVars, loadVars, valVars, measVars, testVars, listVars, classVars, exportVars, sortVars, udpxyVars, dlVars, fetchVars>>

\* Lines 62-65: the content has changed; when the local content is not blank
\* save_history writes it to history/<name>.<second>.bak, over a backup of
\* the same second if there is one.
SaveHistory ==
  /\ k_pc = "fetched"
  /\ is_valid_csv(k_new) /\ k_new # local_content
  /\ k_history' = IF IsBlank(local_content) THEN k_history
                  ELSE [k_history EXCEPT ![k_time] = FileOf(local_content)]
  /\ k_pc' = "saved"
  /\ UNCHANGED <<k_local, k_before, k_new, k_time>>
  /\ UNCHANGED <<normVars, allzjVars, discVars, probeVars, loadVars, valVars, measVars, testVars, listVars, classVars, exportVars, sortVars, udpxyVars, dlVars, fetchVars>>

\* Lines 66-67: the local file is written with the fetched content.
Overwrite ==
  /\ k_pc = "saved"
  /\ k_local' = FileOf(k_new)
  /\ k_pc' = "returned"
  /\ UNCHANGED <<k_before, k_new, k_time, k_history>>
  /\ UNCHANGED <<normVars, allzjVars, discVars, probeVars, loadVars, valVars, measVars, testVars, listVars, classVars, exportVars, sortVars, udpxyVars, dlVars, fetchVars>>

CsvNext ==
  \/ FetchFails
  \/ \E content \in CsvContents : FetchCsv(content)
  \/ SkipUpdate
  \/ SaveHistory
  \/ Overwrite

SpecCsv == CsvInit /\ [][CsvNext]_vars

\* C26: at every moment of a call the local file is as it was before the
\* call, or it holds the fetched content, which is a valid CSV other than
\* the previous content, and the previous content, when it was not blank, is
\* the content of a backup in history/ (so the backup is there before the
\* file is overwritten).
C26_PreviousContentKept ==
  k_pc # "idle" =>
    \/ k_local = k_before
    \/ /\ k_local = FileOf(k_new)
       /\ is_valid_csv(k_new)
       /\ k_new # k_before.content
       /\ \/ IsBlank(k_before.content)
          \/ \E s \in Seconds : k_history[s] = FileOf(k_before.content)

\* C26 witness: the call has returned after it overwrote a local file that
\* was not blank, and the previous content is in a backup.
C26_Witness ==
  /\ k_pc = "returned"
  /\ k_before.exists
  /\ ~IsBlank(k_before.content)
  /\ k_local # k_before
  /\ k_history[k_time] = FileOf(k_before.content)

(***************************************************************************)
(* _generate_unique_filename, download_files and parse_txt_files of        *)
(* src/unicast.py (lines 176-285); _generate_unique_filename,              *)
(* _download_source_files and _parse_source_files of                       *)
(* src/mobileunicast/unicast.py (232-333) are the same code with a pool of *)
(* 5 workers.  A URL is what urlparse makes of it: the network location    *)
(* and the parts of the path, each a text; the query is not read.          *)
(***************************************************************************)
\* s.endswith(suffix).
EndsWith(s, suffix) ==
  /\ Len(s) >= Len(suffix)
  /\ SubSeq(s, Len(s) - Len(suffix) + 1, Len(s)) = suffix

DotTxt == <<".", "t", "x", "t">>

\* s.rsplit(".", 1)[0]: the text before the last ".", all of s without one.
RSplitDot(s) ==
  LET dots == { i \in DOMAIN s : s[i] = "." }
  IN  IF dots = {} THEN s
      ELSE SubSeq(s, 1, (CHOOSE i \in dots : \A j \in dots : j <= i) - 1)

\* netloc.replace(".", "_").split("_")[0].
FirstLabel(netloc) ==
  LET seps == { i \in DOMAIN netloc : netloc[i] \in { ".", "_" } }
  IN  IF seps = {} THEN netloc
      ELSE SubSeq(netloc, 1, (CHOOSE i \in seps : \A j \in seps : i <= j) - 1)

\* [part for part in parsed.path.split("/") if part]
PathParts(url) == Filter(url.path, LAMBDA part : part # <<>>)

\* _generate_unique_filename, unicast.py:233-260.
generate_unique_filename(url) ==
  LET path_parts == PathParts(url)
      last == IF path_parts = <<>> THEN <<"u", "n", "k", "n", "o", "w", "n">> \o DotTxt
              ELSE path_parts[Len(path_parts)]
      original_filename == IF EndsWith(last, DotTxt) THEN last ELSE last \o DotTxt
      prefix == IF Len(path_parts) > 1 THEN path_parts[Len(path_parts) - 1]
                ELSE FirstLabel(url.netloc)
  IN  prefix \o <<"_">> \o RSplitDot(original_filename) \o DotTxt

\* ThreadPoolExecutor(max_workers=3), unicast.py:222.
DownloadWorkers == 3

\* ---- the inputs ----
MaxUrls == 2

Netlocs == { <<"a", ".", "t", "v">>, <<"b", ".", "t", "v">> }

Paths ==
  { <<>>,
    << <<"y", "d">> >>,
    << <<"y", "d">> \o DotTxt >>,
    << <<"t", "v">>, <<"y", "d">> \o DotTxt >>,
    << <<"m">>, <<"y", "d">> \o DotTxt >> }

SourceUrls == { [netloc |-> n, path |-> p] : n \in Netlocs, p \in Paths }

\* self.URLS: lists of different URLs.
UrlLists ==
  { l \in SeqsUpTo(SourceUrls, MaxUrls) :
      l # <<>> /\ \A i, j \in DOMAIN l : l[i] = l[j] => i = j }

FileNames == { generate_unique_filename(u) : u \in SourceUrls }

DlInit ==
  /\ dl_urls \in UrlLists
  /\ dl_pc = [i \in DOMAIN dl_urls |-> "queued"]
  \* 0: the file has not been written.
  /\ dl_files = [f \in FileNames |-> 0]
  /\ dl_downloaded = <<>>
  /\ dl_parsed = <<>>
  /\ NormIdle
  /\ AllzjIdle
  /\ DiscIdle
  /\ ProbeIdle
  /\ LoadIdle
  /\ ValIdle
  /\ MeasIdle
  /\ TestIdle
  /\ ListIdle
  /\ ClassIdle
  /\ ExportIdle
  /\ SortIdle
  /\ UdpxyIdle
  /\ CsvIdle
  /\ FetchIdle

Downloading == { i \in DOMAIN dl_pc : dl_pc[i] = "running" }

FileOfUrl(i) == generate_unique_filename(dl_urls[i])

\* A worker of the pool takes download_single_file(url), lines 182-186 and
\* 222-223.
StartDownload(i) ==
  /\ dl_pc[i] = "queued"
  /\ Cardinality(Downloading) < DownloadWorkers
  /\ dl_pc' = [dl_pc EXCEPT ![i] = "running"]
  /\ UNCHANGED <<dl_urls, dl_files, dl_downloaded, dl_parsed>>
  /\ UNCHANGED <<normVars, allzjVars, discVars, probeVars, loadVars, valVars, measVars, testVars, listVars, classVars, exportVars, sortVars, udpxyVars, csvVars, fetchVars>>

\* Lines 196-206: the response is written to downloads/<file name>.
WriteDownload(i) ==
  /\ dl_pc[i] = "running"
  /\ dl_files' = [dl_files EXCEPT ![FileOfUrl(i)] = i]
  /\ dl_pc' = [dl_pc EXCEPT ![i] = "written"]
  /\ UNCHANGED <<dl_urls, dl_downloaded, dl_parsed>>
  /\ UNCHANGED <<normVars, allzjVars, discVars, probeVars, loadVars, valVars, measVars, testVars, listVars, classVars, exportVars, sortVars, udpxyVars, csvVars, fetchVars>>

\* Lines 208-219: the request fails, the worker returns None.
DownloadFails(i) ==
  /\ dl_pc[i] = "running"
  /\ dl_pc' = [dl_pc EXCEPT ![i] = "failed"]
  /\ UNCHANGED <<dl_urls, dl_files, dl_downloaded, dl_parsed>>
  /\ UNCHANGED <<normVars, allzjVars, discVars, probeVars, loadVars, valVars, measVars, testVars, listVars, classVars, exportVars, sortVars, udpxyVars, csvVars, fetchVars>>

\* Lines 225-228: as_completed yields the future, its path is appended.
CollectDownload(i) ==
  /\ dl_pc[i] = "written"
  /\ dl_downloaded' = Append(dl_downloaded, FileOfUrl(i))
  /\ dl_pc' = [dl_pc EXCEPT ![i] = "collected"]
  /\ UNCHANGED <<dl_urls, dl_files, dl_parsed>>
  /\ UNCHANGED <<normVars, allzjVars, discVars, probeVars, loadVars, valVars, measVars, testVars, listVars, classVars, exportVars, sortVars, udpxyVars, csvVars, fetchVars>>

\* parse_txt_files, lines 262-285: every path of downloaded_files is opened
\* and read, in order.
ParseTxtFiles ==
  /\ \A i \in DOMAIN dl_pc : dl_pc[i] \in { "failed", "collected" }
  /\ dl_downloaded # <<>>
  /\ dl_parsed = <<>>
  /\ dl_parsed' = [k \in DOMAIN dl_downloaded |->
                     [file |-> dl_downloaded[k], content |-> dl_files[dl_downloaded[k]]]]
  /\ UNCHANGED <<dl_urls, dl_pc, dl_files, dl_downloaded>>
  /\ UNCHANGED <<normVars, allzjVars, discVars, probeVars, loadVars, valVars, measVars, testVars, listVars, classVars, exportVars, sortVars, udpxyVars, csvVars, fetchVars>>

DlNext ==
  \/ \E i \in DOMAIN dl_urls : StartDownload(i)
  \/ \E i \in DOMAIN dl_urls : WriteDownload(i)
  \/ \E i \in DOMAIN dl_urls : DownloadFails(i)
  \/ \E i \in DOMAIN dl_urls : CollectDownload(i)
  \/ ParseTxtFiles

SpecDownload == DlInit /\ [][DlNext]_vars

\* C27: no two workers that run at the same time have the same download
\* file, and no file is read twice by the parse; both follow when different
\* URLs have different file names.
C27_UniqueFilePerUrl ==
  /\ \A i, j \in Downloading : i # j => FileOfUrl(i) # FileOfUrl(j)
  /\ \A a, b \in DOMAIN dl_parsed : dl_parsed[a].file = dl_parsed[b].file => a = b

(***************************************************************************)
(* The fetch phase of get_channels_alltv (src/all-z-j-new.py:275-292) and  *)
(* of get_channels_hgxtv (402-431): one fetch task per live host, counted  *)
(* rather than named.  The function itself enters "async with              *)
(* asyncio.Semaphore(50)", once, around the creation of the tasks and the  *)
(* gather; fetch_channel_data and fetch_channels do not touch the          *)
(* semaphore.                                                              *)
(***************************************************************************)
\* asyncio.Semaphore(50), lines 290 and 429.
FetchSemaphore == 50

\* ---- the inputs ----
\* The most hosts check_urls_async reports live.
MaxLiveHosts == 52

FetchInit ==
  /\ f_pc = "entering"
  /\ f_kind \in { "A", "C" }
  /\ f_sem = FetchSemaphore
  /\ f_waiting \in 0..MaxLiveHosts
  /\ f_inside = 0
  /\ f_done = 0
  /\ NormIdle
  /\ AllzjIdle
  /\ DiscIdle
  /\ ProbeIdle
  /\ LoadIdle
  /\ ValIdle
  /\ MeasIdle
  /\ TestIdle
  /\ ListIdle
  /\ ClassIdle
  /\ ExportIdle
  /\ SortIdle
  /\ UdpxyIdle
  /\ CsvIdle
  /\ DlIdle

\* "async with asyncio.Semaphore(50):" (lines 290, 429): the function
\* acquires the new semaphore once; the tasks are made and handed to gather.
EnterSemaphore ==
  /\ f_pc = "entering"
  /\ f_sem > 0
  /\ f_sem' = f_sem - 1
  /\ f_pc' = "gathering"
  /\ UNCHANGED <<f_kind, f_waiting, f_inside, f_done>>
  /\ UNCHANGED <<normVars, allzjVars, discVars, probeVars, loadVars, valVars, measVars, testVars, listVars, classVars, exportVars, sortVars, udpxyVars, csvVars, dlVars>>

\* A fetch task runs to its session.get (lines 277-279, 406-407); nothing in
\* it waits for the semaphore.
StartFetch ==
  /\ f_pc = "gathering"
  /\ f_waiting > 0
  /\ f_waiting' = f_waiting - 1
  /\ f_inside' = f_inside + 1
  /\ UNCHANGED <<f_pc, f_kind, f_sem, f_done>>
  /\ UNCHANGED <<normVars, allzjVars, discVars, probeVars, loadVars, valVars, measVars, testVars, listVars, classVars, exportVars, sortVars, udpxyVars, csvVars, dlVars>>

\* The request of a task ends, with a list or with an exception that the
\* task catches (lines 280-287, 408-427); the task returns.
EndFetch ==
  /\ f_pc = "gathering"
  /\ f_inside > 0
  /\ f_inside' = f_inside - 1
  /\ f_done' = f_done + 1
  /\ UNCHANGED <<f_pc, f_kind, f_sem, f_waiting>>
  /\ UNCHANGED <<normVars, allzjVars, discVars, probeVars, loadVars, valVars, measVars, testVars, listVars, classVars, exportVars, sortVars, udpxyVars, csvVars, dlVars>>

\* gather returns (lines 292, 431) and the "async with" block releases the
\* semaphore.
LeaveSemaphore ==
  /\ f_pc = "gathering"
  /\ f_waiting = 0
  /\ f_inside = 0
  /\ f_sem' = f_sem + 1
  /\ f_pc' = "returned"
  /\ UNCHANGED <<f_kind, f_waiting, f_inside, f_done>>
  /\ UNCHANGED <<normVars, allzjVars, discVars, probeVars, loadVars, valVars, measVars, testVars, listVars, classVars, exportVars, sortVars, udpxyVars, csvVars, dlVars>>

FetchNext ==
  \/ EnterSemaphore
  \/ StartFetch
  \/ EndFetch
  \/ LeaveSemaphore

SpecFetch == FetchInit /\ [][FetchNext]_vars

\* C29: at every moment of the fetch phase of Kind A and Kind C at most 50
\* channel-directory fetches are in flight.
C29_AtMostFiftyInFlight ==
  f_inside <= FetchSemaphore

====
